---------------------------- MODULE Spec2Model ----------------------------
(***************************************************************************)
(* Credential core of CST1510-CSW2: app/data/users.py and app/data/db.py   *)
(* (the database evolution) and CST1500_Coursework2/auth_functions.py (the *)
(* flat-file evolution).                                                   *)
(*                                                                         *)
(* A Python str is a sequence of one-character strings, so that strip(),   *)
(* lower(), split(",") and the validation rules are computed, not assumed. *)
(* Python's None is the value None below.                                  *)
(***************************************************************************)
EXTENDS Integers, Sequences, FiniteSets, TLC

VARIABLES
    evolution,  \* which program runs: "db" (MultiDomain-CST1510) or "flat" (CST1500);
                \* when the helpers run alone, the bcrypt they are installed with
    storeUp,    \* db.py: whether sqlite3 can open intelligence.db and run statements
                \* on it; only the outage specification ever takes it down
    tables,     \* db.py: whether the users table exists in intelligence.db
    users,      \* rows of the users table: [id, username, password_hash, role]
    nextId,     \* sqlite_sequence of users (AUTOINCREMENT): the last id handed out
    userFile,   \* DATA/users.txt (db) or users.txt (flat): the sequence of its lines
    pc,         \* per concurrent caller: the step of the call it is in
    frame,      \* per concurrent caller: the arguments and locals of its call
    session     \* per browser session: st.session_state, the page last shown, and
                \* what the authenticate_user calls of the session returned

vars == <<evolution, storeUp, session, tables, users, nextId, userFile, pc, frame>>

----------------------------------------------------------------------------
(* Bounds of the model *)

\* ids the users table may hand out before the model stops inserting
MaxId == 3

\* failed login attempts in a row that one caller makes
MaxFailed == 2

\* longest username and longest password the validators are given
MaxUsernameLen == 4
MaxPasswordLen == 6

\* lines of the users.txt that a migration is given
MaxLines == 3

----------------------------------------------------------------------------
(* Python values *)

None == <<"<None>">>

\* Python's `x or d`
OrElse(x, d) == IF x = None \/ x = <<>> THEN d ELSE x

UpperCase == <<"A","B","C","D","E","F","G","H","I","J","K","L","M",
               "N","O","P","Q","R","S","T","U","V","W","X","Y","Z">>
LowerCase == <<"a","b","c","d","e","f","g","h","i","j","k","l","m",
               "n","o","p","q","r","s","t","u","v","w","x","y","z">>
Digits == {"0","1","2","3","4","5","6","7","8","9"}
Letters == {UpperCase[i] : i \in 1..26} \cup {LowerCase[i] : i \in 1..26}
Whitespace == {" ", "\t", "\n"}

isdigit(ch) == ch \in Digits
isalpha(ch) == ch \in Letters
isalnum(ch) == isdigit(ch) \/ isalpha(ch)

\* str.lower(), one character
LowerChar(ch) ==
    IF \E i \in 1..26 : UpperCase[i] = ch
    THEN LowerCase[CHOOSE i \in 1..26 : UpperCase[i] = ch]
    ELSE ch

lower(s) == [i \in 1..Len(s) |-> LowerChar(s[i])]

RECURSIVE lstrip(_)
lstrip(s) == IF s # <<>> /\ Head(s) \in Whitespace THEN lstrip(Tail(s)) ELSE s

RECURSIVE rstrip(_)
rstrip(s) ==
    IF s # <<>> /\ s[Len(s)] \in Whitespace
    THEN rstrip(SubSeq(s, 1, Len(s) - 1))
    ELSE s

\* str.strip()
strip(s) == rstrip(lstrip(s))

\* the index of the first sep in s, 0 when there is none
RECURSIVE FindFrom(_, _, _)
FindFrom(s, sep, i) ==
    IF i > Len(s) THEN 0
    ELSE IF s[i] = sep THEN i
    ELSE FindFrom(s, sep, i + 1)

\* str.split(sep): every field, empty ones included
RECURSIVE split(_, _)
split(s, sep) ==
    LET i == FindFrom(s, sep, 1)
    IN  IF i = 0 THEN <<s>>
        ELSE <<SubSeq(s, 1, i - 1)>> \o split(SubSeq(s, i + 1, Len(s)), sep)

\* str.split(sep, 1): at most one cut
split1(s, sep) ==
    LET i == FindFrom(s, sep, 1)
    IN  IF i = 0 THEN <<s>>
        ELSE <<SubSeq(s, 1, i - 1), SubSeq(s, i + 1, Len(s))>>

\* str.startswith(prefix)
startswith(s, prefix) ==
    Len(s) >= Len(prefix) /\ SubSeq(s, 1, Len(prefix)) = prefix

RECURSIVE SelectNonEmpty(_)
SelectNonEmpty(fields) ==
    IF fields = <<>> THEN <<>>
    ELSE IF Head(fields) = <<>> THEN SelectNonEmpty(Tail(fields))
    ELSE <<Head(fields)>> \o SelectNonEmpty(Tail(fields))

StripAll(fields) == [i \in 1..Len(fields) |-> strip(fields[i])]

----------------------------------------------------------------------------
(* users.py: constants *)

SEED_ADMIN_USERNAME == <<"J","a","y","s","o","n","F">>
SEED_ADMIN_PASSWORD == <<"J","a","y","s","o","n","@","2","0","0","8">>
SEED_ADMIN_ROLE == <<"a","d","m","i","n">>

ADMIN == <<"a","d","m","i","n">>
ANALYST == <<"a","n","a","l","y","s","t">>


----------------------------------------------------------------------------
(* users.py: hashing helpers.  A bcrypt hash is "$2b$12$" + salt + digest. *)
(* The digest is modelled as a collision-free encoding of (password, salt) *)
(* into bcrypt's alphabet; the salt is whatever gensalt() returned.        *)

BcryptPrefix == <<"$","2","b","$","1","2","$">>

\* the outcomes of bcrypt.gensalt()
Salts == {<<"x">>, <<"y">>}

SaltAlphabet == Digits \cup Letters \cup {".", "/"}

EncChar(ch) ==
    IF isalnum(ch) THEN ch
    ELSE IF ch = "@" THEN "."
    ELSE "/"

\* bcrypt reads no more than this many bytes of a password
BcryptMaxBytes == 72

BcryptInput(password) ==
    IF Len(password) > BcryptMaxBytes
    THEN SubSeq(password, 1, BcryptMaxBytes)
    ELSE password

\* What the installed bcrypt does with a longer password: releases before 5.0
\* hash its first 72 bytes, later ones raise ValueError.
BcryptBuilds == {"bcrypt-truncates", "bcrypt-refuses"}

Refuses(build, password) ==
    build = "bcrypt-refuses" /\ Len(password) > BcryptMaxBytes

Digest(password, salt) ==
    [i \in 1..Len(BcryptInput(password)) |-> EncChar(password[i])] \o salt

\* bcrypt.hashpw(password, salt)
hashpw(password, salt) == BcryptPrefix \o salt \o Digest(password, salt)

\* hash_password(plain_text_password), for the salt gensalt() drew
hash_password(plain_text_password, salt) == hashpw(plain_text_password, salt)

\* whether bcrypt can read a salt out of stored_hash; it raises ValueError otherwise
HasSalt(stored_hash) ==
    /\ Len(stored_hash) >= Len(BcryptPrefix) + 1
    /\ startswith(stored_hash, BcryptPrefix)
    /\ stored_hash[Len(BcryptPrefix) + 1] \in SaltAlphabet

SaltOf(stored_hash) ==
    SubSeq(stored_hash, Len(BcryptPrefix) + 1, Len(BcryptPrefix) + 1)

\* verify_password(plain_text_password, stored_hash): bcrypt.checkpw re-hashes the
\* password with the salt of stored_hash and compares; [exc, val]
verify_password(plain_text_password, stored_hash) ==
    IF ~HasSalt(stored_hash)
    THEN [exc |-> "ValueError", val |-> FALSE]
    ELSE [exc |-> "",
          val |-> hashpw(plain_text_password, SaltOf(stored_hash)) = stored_hash]

----------------------------------------------------------------------------
(* users.py: validation helpers (the later policy) *)

UsernameChars == Digits \cup Letters \cup {"_"}

\* a validate_username that tests the character set before the spaces
validate_username_charset_first(username) ==
    LET u == strip(OrElse(username, <<>>))
    IN  IF Len(u) < 2
        THEN <<FALSE, "Username must be at least 2 characters.">>
        ELSE IF ~(\A i \in 1..Len(u) : u[i] \in UsernameChars)
        THEN <<FALSE, "Username can only contain letters, numbers, and underscore (_).">>
        ELSE IF \E i \in 1..Len(u) : u[i] = " "
        THEN <<FALSE, "Username cannot contain spaces.">>
        ELSE <<TRUE, "OK">>

\* a validate_username that does not strip() what it is given
validate_username_no_strip(username) ==
    LET u == OrElse(username, <<>>)
    IN  IF Len(u) < 2
        THEN <<FALSE, "Username must be at least 2 characters.">>
        ELSE IF \E i \in 1..Len(u) : u[i] = " "
        THEN <<FALSE, "Username cannot contain spaces.">>
        ELSE IF ~(\A i \in 1..Len(u) : u[i] \in UsernameChars)
        THEN <<FALSE, "Username can only contain letters, numbers, and underscore (_).">>
        ELSE <<TRUE, "OK">>

validate_username(username) ==
    LET u == strip(OrElse(username, <<>>))
    IN  IF Len(u) < 2
        THEN <<FALSE, "Username must be at least 2 characters.">>
        ELSE IF \E i \in 1..Len(u) : u[i] = " "
        THEN <<FALSE, "Username cannot contain spaces.">>
        ELSE IF ~(\A i \in 1..Len(u) : u[i] \in UsernameChars)
        THEN <<FALSE, "Username can only contain letters, numbers, and underscore (_).">>
        ELSE <<TRUE, "OK">>

\* a validate_password without the special-character rule
validate_password_no_special(password) ==
    LET p == OrElse(password, <<>>)
    IN  IF Len(p) < 5
        THEN <<FALSE, "Password must be at least 5 characters.">>
        ELSE IF ~(\E i \in 1..Len(p) : isdigit(p[i]))
        THEN <<FALSE, "Password must contain at least 1 number.">>
        ELSE IF ~(\E i \in 1..Len(p) : isalpha(p[i]))
        THEN <<FALSE, "Password must contain at least 1 letter.">>
        ELSE <<TRUE, "OK">>

validate_password(password) ==
    LET p == OrElse(password, <<>>)
    IN  IF Len(p) < 5
        THEN <<FALSE, "Password must be at least 5 characters.">>
        ELSE IF ~(\E i \in 1..Len(p) : isdigit(p[i]))
        THEN <<FALSE, "Password must contain at least 1 number.">>
        ELSE IF ~(\E i \in 1..Len(p) : isalpha(p[i]))
        THEN <<FALSE, "Password must contain at least 1 letter.">>
        ELSE IF ~(\E i \in 1..Len(p) : ~isalnum(p[i]))
        THEN <<FALSE, "Password must contain at least 1 special character (e.g., @, #, !).">>
        ELSE <<TRUE, "OK">>

----------------------------------------------------------------------------
(* auth_functions.py: validation helpers (the earlier policy) *)

flat_validate_username(username) ==
    IF Len(username) < 3
    THEN <<FALSE, "Username must be at least 3 characters long.">>
    ELSE IF \E i \in 1..Len(username) : username[i] = " "
    THEN <<FALSE, "Username cannot contain spaces.">>
    ELSE IF ~(\A i \in 1..Len(username) : isalnum(username[i]))
    THEN <<FALSE, "Username can only contain letters and numbers.">>
    ELSE <<TRUE, "">>

flat_validate_password(password) ==
    IF Len(password) < 6
    THEN <<FALSE, "Password must be at least 6 characters long.">>
    ELSE IF ~(\E i \in 1..Len(password) : isdigit(password[i]))
    THEN <<FALSE, "Password must contain at least one number.">>
    ELSE IF ~(\E i \in 1..Len(password) : isalpha(password[i]))
    THEN <<FALSE, "Password must contain at least one letter.">>
    ELSE <<TRUE, "">>

----------------------------------------------------------------------------
(* db.py: the users table.  username is UNIQUE, id is AUTOINCREMENT. *)

\* cursor.fetchone() of an empty result
NoRow == [id |-> 0, username |-> None, password_hash |-> None, role |-> None]

RowsOf(tbl, username) == {row \in tbl : row.username = username}

\* an INSERT into a users table declared without UNIQUE on username
DbInsert_no_unique(tbl, seq, username, password_hash, role) ==
    [exc |-> "",
     users |-> tbl \cup {[id |-> seq + 1, username |-> username,
                          password_hash |-> password_hash, role |-> role]},
     seq |-> seq + 1]

\* INSERT INTO users (username, password_hash, role): the UNIQUE constraint of
\* create_tables rejects a second row for a username with sqlite3.IntegrityError
DbInsert(tbl, seq, username, password_hash, role) ==
    IF RowsOf(tbl, username) # {}
    THEN [exc |-> "IntegrityError", users |-> tbl, seq |-> seq]
    ELSE [exc |-> "",
          users |-> tbl \cup {[id |-> seq + 1, username |-> username,
                               password_hash |-> password_hash, role |-> role]},
          seq |-> seq + 1]

\* INSERT OR REPLACE INTO users: a conflicting row gives way to the new one
DbInsertOrReplace(tbl, seq, username, password_hash, role) ==
    [exc |-> "",
     users |-> (tbl \ RowsOf(tbl, username))
                  \cup {[id |-> seq + 1, username |-> username,
                         password_hash |-> password_hash, role |-> role]},
     seq |-> seq + 1]

\* INSERT OR IGNORE INTO users: a conflicting row is skipped silently
DbInsertOrIgnore(tbl, seq, username, password_hash, role) ==
    LET ins == DbInsert(tbl, seq, username, password_hash, role)
    IN  [exc |-> "", users |-> ins.users, seq |-> ins.seq]

\* an UPDATE without its WHERE clause
DbUpdate_all_rows(tbl, username, password_hash, role) ==
    {[row EXCEPT !.password_hash = password_hash, !.role = role] : row \in tbl}

\* UPDATE users SET password_hash = ?, role = ? WHERE username = ?
DbUpdate(tbl, username, password_hash, role) ==
    {IF row.username = username
     THEN [row EXCEPT !.password_hash = password_hash, !.role = role]
     ELSE row : row \in tbl}

\* get_user_by_username(username): SELECT ... WHERE username = ?, fetchone()
get_user_by_username(tbl, username) ==
    LET u == strip(OrElse(username, <<>>))
        found == RowsOf(tbl, u)
    IN  IF u = <<>> THEN NoRow
        ELSE IF found = {} THEN NoRow
        ELSE CHOOSE row \in found : \A other \in found : row.id <= other.id

----------------------------------------------------------------------------
(* users.txt: one record per line, "username,hash" or "username,hash,role" *)

Line2(username, password_hash) == username \o <<",">> \o password_hash

Line3(username, password_hash, role) ==
    username \o <<",">> \o password_hash \o <<",">> \o role

\* a normalisation that lower-cases and strips but keeps whatever it is given
RegisterRole_keeps_unknown(role) == lower(strip(OrElse(role, ANALYST)))

\* users.py: register_user's role normalisation
RegisterRole(role) ==
    LET r == lower(strip(OrElse(role, ANALYST)))
    IN  IF r \in {ANALYST, ADMIN} THEN r ELSE ANALYST

\* db.py: migrate_users_from_file.normalise_role
normalise_role(raw_role) ==
    LET r == lower(strip(OrElse(raw_role, <<>>)))
    IN  IF r \in {ADMIN, ANALYST} THEN r ELSE ANALYST

\* users.py: _userfile_has_username(username)
RECURSIVE userfile_has_username(_, _)
userfile_has_username(lines, username) ==
    IF lines = <<>> THEN FALSE
    ELSE LET parts == StripAll(split(Head(lines), ","))
         IN  IF parts[1] = username THEN TRUE
             ELSE userfile_has_username(Tail(lines), username)

\* a migration that gives up at the first line it cannot use
RECURSIVE MigrateLines_stops_at_bad_line(_, _, _, _)
MigrateLines_stops_at_bad_line(lines, hasTable, tbl, seq) ==
    IF lines = <<>> THEN [exc |-> "", users |-> tbl, seq |-> seq]
    ELSE LET line == strip(Head(lines))
             parts == SelectNonEmpty(StripAll(split(line, ",")))
             role == IF Len(parts) >= 3 THEN normalise_role(parts[3]) ELSE ANALYST
         IN  IF line = <<>> \/ Len(parts) < 2
             THEN [exc |-> "", users |-> tbl, seq |-> seq]
             ELSE IF Len(parts[1]) < 2 \/ ~startswith(parts[2], <<"$", "2">>)
             THEN [exc |-> "", users |-> tbl, seq |-> seq]
             ELSE IF ~hasTable
             THEN [exc |-> "OperationalError", users |-> tbl, seq |-> seq]
             ELSE LET ins == DbInsertOrIgnore(tbl, seq, parts[1], parts[2], role)
                  IN  MigrateLines_stops_at_bad_line(Tail(lines), hasTable,
                                                     ins.users, ins.seq)

\* db.py: migrate_users_from_file, the loop over the lines of users.txt inside one
\* transaction; [exc, users, seq].  An INSERT into a missing table raises.
RECURSIVE MigrateLines(_, _, _, _)
MigrateLines(lines, hasTable, tbl, seq) ==
    IF lines = <<>> THEN [exc |-> "", users |-> tbl, seq |-> seq]
    ELSE LET line == strip(Head(lines))
             parts == SelectNonEmpty(StripAll(split(line, ",")))
             role == IF Len(parts) >= 3 THEN normalise_role(parts[3]) ELSE ANALYST
         IN  IF line = <<>> THEN MigrateLines(Tail(lines), hasTable, tbl, seq)
             ELSE IF Len(parts) < 2 THEN MigrateLines(Tail(lines), hasTable, tbl, seq)
             ELSE IF Len(parts[1]) < 2 THEN MigrateLines(Tail(lines), hasTable, tbl, seq)
             ELSE IF ~startswith(parts[2], <<"$", "2">>)
             THEN MigrateLines(Tail(lines), hasTable, tbl, seq)
             ELSE IF ~hasTable
             THEN [exc |-> "OperationalError", users |-> tbl, seq |-> seq]
             ELSE LET ins == DbInsertOrIgnore(tbl, seq, parts[1], parts[2], role)
                  IN  MigrateLines(Tail(lines), hasTable, ins.users, ins.seq)

\* users.py: authenticate_user(username, password), after create_tables(); [exc, ret]
authenticate_user(tbl, username, password) ==
    LET row == get_user_by_username(tbl, strip(OrElse(username, <<>>)))
        check == verify_password(password, row.password_hash)
    IN  IF row = NoRow THEN [exc |-> "", ret |-> <<FALSE, None>>]
        ELSE IF check.exc # "" THEN [exc |-> check.exc, ret |-> <<>>]
        ELSE IF check.val THEN [exc |-> "", ret |-> <<TRUE, row.role>>]
        ELSE [exc |-> "", ret |-> <<FALSE, None>>]

\* users.py: is_admin_credentials(username, password); [exc, ret]
is_admin_credentials(tbl, username, password) ==
    LET a == authenticate_user(tbl, username, password)
    IN  IF a.exc # "" THEN [exc |-> a.exc, ret |-> FALSE]
        ELSE [exc |-> "", ret |-> a.ret[1] /\ a.ret[2] = ADMIN]

----------------------------------------------------------------------------
(* users.py: the calls, as functions of the store they run on *)

\* a register_user that stores the username as typed, without strip()
register_user_keeps_spaces(tbl, seq, file, username, password, role, salt) ==
    LET u == OrElse(username, <<>>)
        r == RegisterRole(role)
        pw_hash == hash_password(password, salt)
        ins == DbInsert(tbl, seq, u, pw_hash, r)
    IN  IF get_user_by_username(tbl, u) # NoRow
        THEN [exc |-> "", ret |-> <<FALSE>>, users |-> tbl, seq |-> seq, file |-> file]
        ELSE IF ins.exc # ""
        THEN [exc |-> ins.exc, ret |-> <<>>, users |-> tbl, seq |-> seq, file |-> file]
        ELSE [exc |-> "", ret |-> <<TRUE>>, users |-> ins.users, seq |-> ins.seq,
              file |-> Append(file, Line3(u, pw_hash, r))]

\* register_user(username, password, role) on table tbl, sequence seq and
\* users.txt file, for the salt gensalt() drew; what it returns or raises and
\* what it leaves behind
register_user(tbl, seq, file, username, password, role, salt) ==
    LET u == strip(OrElse(username, <<>>))
        r == RegisterRole(role)
        pw_hash == hash_password(password, salt)
        ins == DbInsert(tbl, seq, u, pw_hash, r)
    IN  IF get_user_by_username(tbl, u) # NoRow
        THEN [exc |-> "", ret |-> <<FALSE>>, users |-> tbl, seq |-> seq, file |-> file]
        ELSE IF ins.exc # ""
        THEN [exc |-> ins.exc, ret |-> <<>>, users |-> tbl, seq |-> seq, file |-> file]
        ELSE [exc |-> "", ret |-> <<TRUE>>, users |-> ins.users, seq |-> ins.seq,
              file |-> Append(file, Line3(u, pw_hash, r))]

\* an ensure_seed_admin that creates the seed account when missing and leaves an
\* existing one as it is
ensure_seed_admin_insert_only(tbl, seq, file, salt) ==
    LET desired_hash == hash_password(SEED_ADMIN_PASSWORD, salt)
        existing == get_user_by_username(tbl, SEED_ADMIN_USERNAME)
        ins == DbInsert(tbl, seq, SEED_ADMIN_USERNAME, desired_hash, SEED_ADMIN_ROLE)
        written == IF existing = NoRow THEN ins.users ELSE tbl
        row == get_user_by_username(written, SEED_ADMIN_USERNAME)
    IN  [exc |-> "", ret |-> <<>>,
         users |-> written,
         seq |-> IF existing = NoRow THEN ins.seq ELSE seq,
         file |-> IF ~userfile_has_username(file, SEED_ADMIN_USERNAME) /\ row # NoRow
                  THEN Append(file, Line3(SEED_ADMIN_USERNAME, row.password_hash,
                                          SEED_ADMIN_ROLE))
                  ELSE file]

\* an ensure_seed_admin that leaves a seed record alone when its role is admin
\* and its hash verifies the seed password
ensure_seed_admin_keeps_good_hash(tbl, seq, file, salt) ==
    LET desired_hash == hash_password(SEED_ADMIN_PASSWORD, salt)
        existing == get_user_by_username(tbl, SEED_ADMIN_USERNAME)
        good == /\ existing # NoRow
                /\ existing.role = SEED_ADMIN_ROLE
                /\ verify_password(SEED_ADMIN_PASSWORD, existing.password_hash).val
        ins == DbInsert(tbl, seq, SEED_ADMIN_USERNAME, desired_hash, SEED_ADMIN_ROLE)
        written == IF existing = NoRow THEN ins.users
                   ELSE IF good THEN tbl
                   ELSE DbUpdate(tbl, SEED_ADMIN_USERNAME, desired_hash,
                                 SEED_ADMIN_ROLE)
        row == get_user_by_username(written, SEED_ADMIN_USERNAME)
    IN  [exc |-> "", ret |-> <<>>,
         users |-> written,
         seq |-> IF existing = NoRow THEN ins.seq ELSE seq,
         file |-> IF ~userfile_has_username(file, SEED_ADMIN_USERNAME) /\ row # NoRow
                  THEN Append(file, Line3(SEED_ADMIN_USERNAME, row.password_hash,
                                          SEED_ADMIN_ROLE))
                  ELSE file]

\* an ensure_seed_admin that appends its users.txt line without looking whether
\* the file has one
ensure_seed_admin_always_appends(tbl, seq, file, salt) ==
    LET desired_hash == hash_password(SEED_ADMIN_PASSWORD, salt)
        existing == get_user_by_username(tbl, SEED_ADMIN_USERNAME)
        ins == DbInsert(tbl, seq, SEED_ADMIN_USERNAME, desired_hash, SEED_ADMIN_ROLE)
        written == IF existing = NoRow THEN ins.users
                   ELSE DbUpdate(tbl, SEED_ADMIN_USERNAME, desired_hash,
                                 SEED_ADMIN_ROLE)
    IN  [exc |-> "", ret |-> <<>>,
         users |-> written,
         seq |-> IF existing = NoRow THEN ins.seq ELSE seq,
         file |-> Append(file, Line3(SEED_ADMIN_USERNAME, desired_hash,
                                     SEED_ADMIN_ROLE))]

\* ensure_seed_admin() on table tbl, sequence seq and users.txt file
ensure_seed_admin(tbl, seq, file, salt) ==
    LET desired_hash == hash_password(SEED_ADMIN_PASSWORD, salt)
        existing == get_user_by_username(tbl, SEED_ADMIN_USERNAME)
        ins == DbInsert(tbl, seq, SEED_ADMIN_USERNAME, desired_hash, SEED_ADMIN_ROLE)
        written == IF existing = NoRow THEN ins.users
                   ELSE DbUpdate(tbl, SEED_ADMIN_USERNAME, desired_hash,
                                 SEED_ADMIN_ROLE)
        row == get_user_by_username(written, SEED_ADMIN_USERNAME)
    IN  IF existing = NoRow /\ ins.exc # ""
        THEN [exc |-> ins.exc, ret |-> <<>>, users |-> tbl, seq |-> seq, file |-> file]
        ELSE [exc |-> "", ret |-> <<>>,
              users |-> written,
              seq |-> IF existing = NoRow THEN ins.seq ELSE seq,
              file |-> IF ~userfile_has_username(file, SEED_ADMIN_USERNAME)
                          /\ row # NoRow
                       THEN Append(file, Line3(SEED_ADMIN_USERNAME, row.password_hash,
                                               SEED_ADMIN_ROLE))
                       ELSE file]

----------------------------------------------------------------------------
(* auth_functions.py: the flat-file evolution, users.txt is the only store *)

\* whether a line of users.txt names username: line.strip().split(",", 1)[0]
RECURSIVE flat_username_taken(_, _)
flat_username_taken(lines, username) ==
    IF lines = <<>> THEN FALSE
    ELSE IF split1(strip(Head(lines)), ",")[1] = username THEN TRUE
    ELSE flat_username_taken(Tail(lines), username)

\* register_user(username, password)
flat_register_user(file, username, password, salt) ==
    IF flat_username_taken(file, username)
    THEN [exc |-> "", ret |-> <<FALSE>>, file |-> file]
    ELSE [exc |-> "", ret |-> <<TRUE>>,
          file |-> Append(file, Line2(username, hash_password(password, salt)))]

\* login_user(username, password): the first line of the username decides; a line
\* without a comma has no parts[1] and raises IndexError
RECURSIVE flat_login_user(_, _, _)
flat_login_user(lines, username, password) ==
    IF lines = <<>> THEN [exc |-> "", ret |-> <<FALSE>>]
    ELSE LET parts == split1(strip(Head(lines)), ",")
             check == verify_password(password, parts[2])
         IN  IF Len(parts) < 2 THEN [exc |-> "IndexError", ret |-> <<>>]
             ELSE IF parts[1] # username
             THEN flat_login_user(Tail(lines), username, password)
             ELSE IF check.exc # "" THEN [exc |-> check.exc, ret |-> <<>>]
             ELSE [exc |-> "", ret |-> <<check.val>>]

----------------------------------------------------------------------------
(* Inputs *)

PW1 == <<"a","1","@","b","c">>
FLAT_PW == <<"a","b","c","1","2","3">>

UsernameInputs == {<<"a","b">>, <<" ","a","b">>, <<>>, SEED_ADMIN_USERNAME}
PasswordInputs == {PW1, SEED_ADMIN_PASSWORD}
RoleInputs == {None, <<>>, <<" ","A","d","m","i","n">>, <<"v","i","e","w","e","r">>}

FlatUsernameInputs == {<<"a","b","c">>, <<"a","b","1">>, <<"a","b">>}
FlatPasswordInputs == {FLAT_PW, PW1}

\* DATA/users.txt as the earlier coursework may have left it: a blank line, the
\* seed account with another password and role, a record whose hash is not bcrypt's
LegacyFile ==
    << <<>>,
       Line3(SEED_ADMIN_USERNAME, hashpw(PW1, <<"x">>), ANALYST),
       Line3(<<"c","d">>, <<"$","2">>, <<" ","U","S","E","R">>) >>
InitialFiles == {<<>>, LegacyFile}

\* failed counts the caller's failed authenticate_user attempts so far; the program
\* keeps no such count, the model does, to tell what came before an attempt
NoFrame == [op |-> "none", username |-> None, password |-> None, role |-> None,
            pw_hash |-> None, existing |-> NoRow, exc |-> "", ret |-> <<>>,
            failed |-> 0]

\* the two request handlers that run concurrently
Callers == {1, 2}

\* the browser sessions of the page model
Sessions == {1}

\* st.session_state of a new session: no key is set, and .get() answers None or
\* its default.  view is the page, and the part of it, that the last rerun
\* showed.  last_auth and last_login are not in the program: the role that the
\* latest successful authenticate_user call of the session returned, and the
\* role that the latest accepted Login press got.
NoSession == [logged_in |-> FALSE, username |-> None, role |-> None,
              db_initialised |-> FALSE, current_page |-> "", view |-> "none",
              last_auth |-> None, last_login |-> None]

Init ==
    /\ evolution \in {"db", "flat"}
    /\ storeUp = TRUE
    /\ session = [c \in Sessions |-> NoSession]
    /\ tables = FALSE
    /\ users = {}
    /\ nextId = 0
    /\ userFile \in (IF evolution = "db" THEN InitialFiles ELSE {<<>>})
    /\ pc = [c \in Callers |-> "idle"]
    /\ frame = [c \in Callers |-> NoFrame]

----------------------------------------------------------------------------
(* One call at a time.  What a call returns or raises is the exc and ret of  *)
(* its function above; the action is what it leaves behind.                  *)

\* db.py: create_tables()
CreateTables ==
    /\ evolution = "db"
    /\ tables' = TRUE
    /\ UNCHANGED <<evolution, storeUp, session, users, nextId, userFile, pc, frame>>

\* db.py: migrate_users_from_file()
MigrateUsersFromFile ==
    /\ evolution = "db"
    /\ \E m \in {MigrateLines(userFile, tables, users, nextId)} :
           /\ m.seq <= MaxId
           /\ users' = m.users
           /\ nextId' = m.seq
    /\ UNCHANGED <<evolution, storeUp, session, tables, userFile, pc, frame>>

\* users.py: register_user(username, password, role)
RegisterUser(username, password, role) ==
    /\ evolution = "db"
    /\ tables' = TRUE
    /\ \E salt \in Salts :
         \E o \in {register_user(users, nextId, userFile, username, password, role, salt)} :
             /\ o.seq <= MaxId
             /\ users' = o.users
             /\ nextId' = o.seq
             /\ userFile' = o.file
    /\ UNCHANGED <<evolution, storeUp, session, pc, frame>>

\* users.py: authenticate_user(username, password): create_tables(), one SELECT
AuthenticateUser(username, password) ==
    /\ evolution = "db"
    /\ tables' = TRUE
    /\ authenticate_user(users, username, password).exc \in {"", "ValueError"}
    /\ UNCHANGED <<evolution, storeUp, session, users, nextId, userFile, pc, frame>>

\* users.py: is_admin_credentials(username, password): authenticate_user and a
\* comparison of the role
IsAdminCredentials(username, password) ==
    /\ evolution = "db"
    /\ tables' = TRUE
    /\ is_admin_credentials(users, username, password).exc \in {"", "ValueError"}
    /\ UNCHANGED <<evolution, storeUp, session, users, nextId, userFile, pc, frame>>

\* users.py: ensure_seed_admin()
EnsureSeedAdmin ==
    /\ evolution = "db"
    /\ tables' = TRUE
    /\ \E salt \in Salts :
         \E o \in {ensure_seed_admin(users, nextId, userFile, salt)} :
             /\ o.seq <= MaxId
             /\ users' = o.users
             /\ nextId' = o.seq
             /\ userFile' = o.file
    /\ UNCHANGED <<evolution, storeUp, session, pc, frame>>

\* auth_functions.py: register_user(username, password)
FlatRegisterUser(username, password) ==
    /\ evolution = "flat"
    /\ \E salt \in Salts :
         userFile' = flat_register_user(userFile, username, password, salt).file
    /\ UNCHANGED <<evolution, storeUp, session, tables, users, nextId, pc, frame>>

\* auth_functions.py: login_user(username, password): reads users.txt
FlatLoginUser(username, password) ==
    /\ evolution = "flat"
    /\ flat_login_user(userFile, username, password).exc \in {"", "ValueError", "IndexError"}
    /\ UNCHANGED <<evolution, storeUp, session, tables, users, nextId, userFile, pc, frame>>

Next ==
    \/ CreateTables
    \/ MigrateUsersFromFile
    \/ \E u \in UsernameInputs, p \in PasswordInputs, r \in RoleInputs :
           RegisterUser(u, p, r)
    \/ \E u \in UsernameInputs, p \in PasswordInputs : AuthenticateUser(u, p)
    \/ \E u \in UsernameInputs, p \in PasswordInputs : IsAdminCredentials(u, p)
    \/ EnsureSeedAdmin
    \/ \E u \in FlatUsernameInputs, p \in FlatPasswordInputs : FlatRegisterUser(u, p)
    \/ \E u \in FlatUsernameInputs, p \in FlatPasswordInputs : FlatLoginUser(u, p)

Spec == Init /\ [][Next]_vars

----------------------------------------------------------------------------
(* Concurrent callers: each request handler runs one call, every statement  *)
(* that touches the database or users.txt on its own connection is a step.  *)

ConcUsernameInputs == {<<" ","a","b">>, SEED_ADMIN_USERNAME}
ConcPasswordInputs == {PW1}
ConcRoleInputs == {None, <<" ","A","d","m","i","n">>}

Finish(c, f) ==
    /\ pc' = [pc EXCEPT ![c] = "done"]
    /\ frame' = [frame EXCEPT ![c] = f]

\* register_user: create_tables(), normalisation, the pre-check SELECT
RegBegin(c, username, password, role) ==
    /\ evolution = "db"
    /\ pc[c] = "idle"
    /\ tables' = TRUE
    /\ \E f \in {[NoFrame EXCEPT !.op = "register_user",
                                 !.username = strip(OrElse(username, <<>>)),
                                 !.password = password,
                                 !.role = RegisterRole(role),
                                 !.existing = get_user_by_username(users, username)]} :
         IF f.existing # NoRow
         THEN Finish(c, [f EXCEPT !.ret = <<FALSE>>])
         ELSE /\ pc' = [pc EXCEPT ![c] = "reg_insert"]
              /\ frame' = [frame EXCEPT ![c] = f]
    /\ UNCHANGED <<evolution, storeUp, session, users, nextId, userFile>>

\* a register_user that goes on to the users.txt append before its INSERT
RegInsert_append_first(c) ==
    /\ pc[c] = "reg_insert"
    /\ \E salt \in Salts :
         frame' = [frame EXCEPT ![c].pw_hash = hash_password(frame[c].password, salt)]
    /\ pc' = [pc EXCEPT ![c] = "reg_mirror"]
    /\ UNCHANGED <<evolution, storeUp, session, tables, users, nextId, userFile>>

\* register_user: hash_password, INSERT, commit
RegInsert(c) ==
    /\ pc[c] = "reg_insert"
    /\ \E salt \in Salts :
         \E pw_hash \in {hash_password(frame[c].password, salt)} :
           \E ins \in {DbInsert(users, nextId, frame[c].username, pw_hash,
                                frame[c].role)} :
             IF ins.exc # ""
             THEN /\ Finish(c, [frame[c] EXCEPT !.exc = ins.exc])
                  /\ UNCHANGED <<users, nextId>>
             ELSE /\ ins.seq <= MaxId
                  /\ users' = ins.users
                  /\ nextId' = ins.seq
                  /\ pc' = [pc EXCEPT ![c] = "reg_mirror"]
                  /\ frame' = [frame EXCEPT ![c].pw_hash = pw_hash]
    /\ UNCHANGED <<evolution, storeUp, session, tables, userFile>>

\* register_user: the append to users.txt, return True
RegMirror(c) ==
    /\ pc[c] = "reg_mirror"
    /\ userFile' = Append(userFile, Line3(frame[c].username, frame[c].pw_hash,
                                          frame[c].role))
    /\ Finish(c, [frame[c] EXCEPT !.ret = <<TRUE>>])
    /\ UNCHANGED <<evolution, storeUp, session, tables, users, nextId>>

\* register_user: the append to users.txt fails (the file cannot be opened or
\* written); OSError leaves register_user after the INSERT was committed
RegMirrorFails(c) ==
    /\ pc[c] = "reg_mirror"
    /\ Finish(c, [frame[c] EXCEPT !.exc = "OSError"])
    /\ UNCHANGED <<evolution, storeUp, session, tables, users, nextId, userFile>>

\* ensure_seed_admin: create_tables(), desired_hash, existing = the SELECT
SeedBegin(c) ==
    /\ evolution = "db"
    /\ pc[c] = "idle"
    /\ tables' = TRUE
    /\ \E salt \in Salts :
         frame' = [frame EXCEPT ![c] =
                     [NoFrame EXCEPT !.op = "ensure_seed_admin",
                                     !.pw_hash = hash_password(SEED_ADMIN_PASSWORD, salt),
                                     !.existing = get_user_by_username(
                                                      users, SEED_ADMIN_USERNAME)]]
    /\ pc' = [pc EXCEPT ![c] = "seed_write"]
    /\ UNCHANGED <<evolution, storeUp, session, users, nextId, userFile>>

\* ensure_seed_admin: INSERT when existing is None, UPDATE otherwise; commit
SeedWrite(c) ==
    /\ pc[c] = "seed_write"
    /\ IF frame[c].existing = NoRow
       THEN \E ins \in {DbInsert(users, nextId, SEED_ADMIN_USERNAME, frame[c].pw_hash,
                                 SEED_ADMIN_ROLE)} :
              IF ins.exc # ""
              THEN /\ Finish(c, [frame[c] EXCEPT !.exc = ins.exc])
                   /\ UNCHANGED <<users, nextId>>
              ELSE /\ ins.seq <= MaxId
                   /\ users' = ins.users
                   /\ nextId' = ins.seq
                   /\ pc' = [pc EXCEPT ![c] = "seed_check"]
                   /\ UNCHANGED frame
       ELSE /\ users' = DbUpdate(users, SEED_ADMIN_USERNAME, frame[c].pw_hash,
                                 SEED_ADMIN_ROLE)
            /\ pc' = [pc EXCEPT ![c] = "seed_check"]
            /\ UNCHANGED <<nextId, frame>>
    /\ UNCHANGED <<evolution, storeUp, session, tables, userFile>>

\* ensure_seed_admin: _userfile_has_username, then the row read back
SeedCheck(c) ==
    /\ pc[c] = "seed_check"
    /\ \E row \in {get_user_by_username(users, SEED_ADMIN_USERNAME)} :
         IF userfile_has_username(userFile, SEED_ADMIN_USERNAME) \/ row = NoRow
         THEN Finish(c, frame[c])
         ELSE /\ pc' = [pc EXCEPT ![c] = "seed_append"]
              /\ frame' = [frame EXCEPT ![c].pw_hash = row.password_hash]
    /\ UNCHANGED <<evolution, storeUp, session, tables, users, nextId, userFile>>

\* ensure_seed_admin: the append to users.txt
SeedAppend(c) ==
    /\ pc[c] = "seed_append"
    /\ userFile' = Append(userFile, Line3(SEED_ADMIN_USERNAME, frame[c].pw_hash,
                                          SEED_ADMIN_ROLE))
    /\ Finish(c, frame[c])
    /\ UNCHANGED <<evolution, storeUp, session, tables, users, nextId>>

\* an authenticate_user that locks the account out on a wrong password
AuthCall_lockout(c) ==
    /\ evolution = "db"
    /\ pc[c] \in {"idle", "auth_failed"}
    /\ tables' = TRUE
    /\ \E username \in ConcUsernameInputs, password \in PasswordInputs :
         \E a \in {authenticate_user(users, username, password)} :
           IF a.exc = "" /\ a.ret[1]
           THEN /\ Finish(c, [frame[c] EXCEPT !.op = "authenticate_user",
                                              !.username = username,
                                              !.password = password,
                                              !.ret = a.ret])
                /\ UNCHANGED users
           ELSE /\ frame[c].failed < MaxFailed
                /\ pc' = [pc EXCEPT ![c] = "auth_failed"]
                /\ frame' = [frame EXCEPT ![c] =
                               [@ EXCEPT !.op = "authenticate_user",
                                         !.username = username,
                                         !.password = password,
                                         !.exc = a.exc,
                                         !.ret = a.ret,
                                         !.failed = @ + 1]]
                /\ users' = {[row EXCEPT !.role = IF row.username = strip(username)
                                                  THEN <<"l","o","c","k","e","d">>
                                                  ELSE @] : row \in users}
    /\ UNCHANGED <<evolution, storeUp, session, nextId, userFile>>

\* authenticate_user(username, password) by caller c: create_tables(), the SELECT,
\* the bcrypt check.  A caller whose attempt failed may try again.
AuthCall(c) ==
    /\ evolution = "db"
    /\ pc[c] \in {"idle", "auth_failed"}
    /\ tables' = TRUE
    /\ \E username \in ConcUsernameInputs, password \in PasswordInputs :
         \E a \in {authenticate_user(users, username, password)} :
           IF a.exc = "" /\ a.ret[1]
           THEN Finish(c, [frame[c] EXCEPT !.op = "authenticate_user",
                                           !.username = username,
                                           !.password = password,
                                           !.ret = a.ret])
           ELSE /\ frame[c].failed < MaxFailed
                /\ pc' = [pc EXCEPT ![c] = "auth_failed"]
                /\ frame' = [frame EXCEPT ![c] =
                               [@ EXCEPT !.op = "authenticate_user",
                                         !.username = username,
                                         !.password = password,
                                         !.exc = a.exc,
                                         !.ret = a.ret,
                                         !.failed = @ + 1]]
    /\ UNCHANGED <<evolution, storeUp, session, users, nextId, userFile>>

InitConc == Init /\ evolution = "db"

NextConc ==
    \/ CreateTables
    \/ MigrateUsersFromFile
    \/ \E c \in Callers, u \in ConcUsernameInputs, p \in ConcPasswordInputs,
          r \in ConcRoleInputs : RegBegin(c, u, p, r)
    \/ \E c \in Callers : RegInsert(c)
    \/ \E c \in Callers : RegMirror(c)
    \/ \E c \in Callers : RegMirrorFails(c)
    \/ \E c \in Callers : SeedBegin(c)
    \/ \E c \in Callers : SeedWrite(c)
    \/ \E c \in Callers : SeedCheck(c)
    \/ \E c \in Callers : SeedAppend(c)
    \/ \E c \in Callers : AuthCall(c)

SpecConc == InitConc /\ [][NextConc]_vars

----------------------------------------------------------------------------
(* pages/1_Login.py: one browser session of the login page.  Every rerun of  *)
(* the script is one step: the startup block, then the handler of the mode   *)
(* and button chosen.  frame[c] keeps what the last rerun showed.            *)

\* a startup block without the ensure_seed_admin() of line 28
page_startup_without_seed(db_initialised, tbl, seq, file, salt) ==
    LET m == IF db_initialised THEN [exc |-> "", users |-> tbl, seq |-> seq]
             ELSE MigrateLines(file, TRUE, tbl, seq)
    IN  [exc |-> m.exc, ret |-> <<>>, users |-> m.users, seq |-> m.seq, file |-> file]

\* 1_Login.py lines 20-28: create_tables() and migrate_users_from_file() once per
\* session, ensure_seed_admin() on every rerun
page_startup(db_initialised, tbl, seq, file, salt) ==
    LET m == IF db_initialised THEN [exc |-> "", users |-> tbl, seq |-> seq]
             ELSE MigrateLines(file, TRUE, tbl, seq)
    IN  IF m.exc # ""
        THEN [exc |-> m.exc, ret |-> <<>>, users |-> tbl, seq |-> seq, file |-> file]
        ELSE ensure_seed_admin(m.users, m.seq, file, salt)

MsgFillFields == "Please fill in all the fields."
MsgMismatch == "Passwords do not match."
MsgAdminFailed == "Admin approval failed. Use a valid existing admin login."
MsgRegistered(role) == IF role = ADMIN THEN "User registered as **admin**. You can now login."
                       ELSE "User registered as **analyst**. You can now login."
MsgInvalidLogin == "Invalid username or password."
MsgEnterBoth == "Please enter both username and password."
MsgExists == "That username already exists. Please choose another one."

\* the Register branch without the approval test of line 103
register_flow_no_approval(tbl, seq, file, new_username, new_password, confirm_password, register_as_admin, admin_user, admin_pass, salt) ==
    LET out(msg) == [exc |-> "", msg |-> msg, users |-> tbl, seq |-> seq, file |-> file]
        vu == validate_username(new_username)
        vp == validate_password(new_password)
        role == IF register_as_admin THEN ADMIN ELSE ANALYST
        reg == register_user(tbl, seq, file, new_username, new_password, role, salt)
    IN  IF new_username = <<>> \/ new_password = <<>> \/ confirm_password = <<>>
        THEN out(MsgFillFields)
        ELSE IF ~vu[1] THEN out(vu[2])
        ELSE IF ~vp[1] THEN out(vp[2])
        ELSE IF new_password # confirm_password THEN out(MsgMismatch)
        ELSE [exc |-> reg.exc,
              msg |-> IF reg.exc # "" THEN "" ELSE
                      IF reg.ret = <<TRUE>> THEN MsgRegistered(role) ELSE MsgExists,
              users |-> reg.users, seq |-> reg.seq, file |-> reg.file]

\* a Register branch that hands what was typed straight to register_user
register_flow_unchecked(tbl, seq, file, new_username, new_password, confirm_password, register_as_admin, admin_user, admin_pass, salt) ==
    LET role == IF register_as_admin THEN ADMIN ELSE ANALYST
        reg == register_user(tbl, seq, file, new_username, new_password, role, salt)
    IN  [exc |-> reg.exc,
         msg |-> IF reg.exc # "" THEN "" ELSE
                 IF reg.ret = <<TRUE>> THEN MsgRegistered(role) ELSE MsgExists,
         users |-> reg.users, seq |-> reg.seq, file |-> reg.file]

\* 1_Login.py lines 70-110, Register mode with the button pressed: the approval
\* check of lines 73-85, then the handler; [exc, msg, users, seq, file]
register_flow(tbl, seq, file, new_username, new_password, confirm_password, register_as_admin, admin_user, admin_pass, salt) ==
    LET out(msg) == [exc |-> "", msg |-> msg, users |-> tbl, seq |-> seq, file |-> file]
        approval == IF register_as_admin /\ admin_user # <<>> /\ admin_pass # <<>>
                    THEN is_admin_credentials(tbl, admin_user, admin_pass)
                    ELSE [exc |-> "", ret |-> ~register_as_admin]
        admin_ok == approval.ret
        vu == validate_username(new_username)
        vp == validate_password(new_password)
        role == IF register_as_admin THEN ADMIN ELSE ANALYST
        reg == register_user(tbl, seq, file, new_username, new_password, role, salt)
    IN  IF approval.exc # ""
        THEN [exc |-> approval.exc, msg |-> "", users |-> tbl, seq |-> seq, file |-> file]
        ELSE IF new_username = <<>> \/ new_password = <<>> \/ confirm_password = <<>>
        THEN out(MsgFillFields)
        ELSE IF ~vu[1] THEN out(vu[2])
        ELSE IF ~vp[1] THEN out(vp[2])
        ELSE IF new_password # confirm_password THEN out(MsgMismatch)
        ELSE IF role = ADMIN /\ ~admin_ok THEN out(MsgAdminFailed)
        ELSE [exc |-> reg.exc,
              msg |-> IF reg.exc # "" THEN "" ELSE
                      IF reg.ret = <<TRUE>> THEN MsgRegistered(role) ELSE MsgExists,
              users |-> reg.users, seq |-> reg.seq, file |-> reg.file]

\* 1_Login.py lines 116-135, Login mode with the button pressed; [exc, msg, role]
login_flow(tbl, username, password) ==
    LET a == authenticate_user(tbl, username, password)
    IN  IF username = <<>> \/ password = <<>>
        THEN [exc |-> "", msg |-> MsgEnterBoth, role |-> None]
        ELSE IF a.exc # "" THEN [exc |-> a.exc, msg |-> "", role |-> None]
        ELSE IF a.ret[1] THEN [exc |-> "", msg |-> "Welcome", role |-> a.ret[2]]
        ELSE [exc |-> "", msg |-> MsgInvalidLogin, role |-> None]

NoDigitPassword == <<"a","b","c","d","e">>
PageUsernameInputs == {<<"a","b">>, SEED_ADMIN_USERNAME, <<"a"," ","b">>, <<>>}
PagePasswordInputs == {PW1, NoDigitPassword, <<>>}
PageConfirmInputs == {PW1, NoDigitPassword}
\* what is typed into the two approver fields
ApproverInputs == {<< <<>>, <<>> >>,
                   <<SEED_ADMIN_USERNAME, SEED_ADMIN_PASSWORD>>,
                   << <<"a","b">>, PW1 >>}
LoginUsernameInputs == {<<"a","b">>, SEED_ADMIN_USERNAME, <<"c","d">>}
LoginPasswordInputs == {PW1, SEED_ADMIN_PASSWORD}

\* a rerun in Register mode with the Register button pressed
RegisterRun(c) ==
    /\ evolution = "db"
    /\ pc[c] \in {"idle", "session"}
    /\ tables' = TRUE
    /\ pc' = [pc EXCEPT ![c] = "session"]
    /\ \E s1 \in Salts :
         \E st \in {page_startup(pc[c] = "session", users, nextId, userFile, s1)} :
           \E new_username \in PageUsernameInputs, new_password \in PagePasswordInputs,
              confirm_password \in PageConfirmInputs, register_as_admin \in BOOLEAN :
             \E a \in (IF register_as_admin THEN ApproverInputs ELSE {<< <<>>, <<>> >>}),
                s2 \in Salts :
               \E o \in {IF st.exc # ""
                         THEN [exc |-> st.exc, msg |-> "", users |-> st.users,
                               seq |-> st.seq, file |-> st.file]
                         ELSE register_flow(st.users, st.seq, st.file, new_username,
                                            new_password, confirm_password,
                                            register_as_admin, a[1], a[2], s2)} :
                 /\ o.seq <= MaxId
                 /\ users' = o.users
                 /\ nextId' = o.seq
                 /\ userFile' = o.file
                 /\ frame' = [frame EXCEPT ![c] =
                                [NoFrame EXCEPT !.op = "register",
                                                !.username = new_username,
                                                !.password = new_password,
                                                !.role = IF register_as_admin THEN ADMIN
                                                         ELSE ANALYST,
                                                !.exc = o.exc,
                                                !.ret = <<o.msg>>]]
    /\ UNCHANGED <<evolution, storeUp, session>>

\* a rerun in Login mode with the Login button pressed
LoginRun(c) ==
    /\ evolution = "db"
    /\ pc[c] \in {"idle", "session"}
    /\ tables' = TRUE
    /\ pc' = [pc EXCEPT ![c] = "session"]
    /\ \E s1 \in Salts :
         \E st \in {page_startup(pc[c] = "session", users, nextId, userFile, s1)} :
           \E username \in LoginUsernameInputs, password \in LoginPasswordInputs :
             \E o \in {IF st.exc # "" THEN [exc |-> st.exc, msg |-> "", role |-> None]
                       ELSE login_flow(st.users, username, password)} :
               /\ st.seq <= MaxId
               /\ users' = st.users
               /\ nextId' = st.seq
               /\ userFile' = st.file
               /\ frame' = [frame EXCEPT ![c] =
                              [NoFrame EXCEPT !.op = "login",
                                              !.username = username,
                                              !.password = password,
                                              !.role = o.role,
                                              !.exc = o.exc,
                                              !.ret = <<o.msg>>]]
    /\ UNCHANGED <<evolution, storeUp, session>>

\* the browser tab is reloaded: st.session_state starts empty again
NewSession(c) ==
    /\ pc[c] = "session"
    /\ pc' = [pc EXCEPT ![c] = "idle"]
    /\ frame' = [frame EXCEPT ![c] = NoFrame]
    /\ UNCHANGED <<evolution, storeUp, session, tables, users, nextId, userFile>>

InitPage == Init /\ evolution = "db"

NextPage ==
    \/ \E c \in Sessions : RegisterRun(c)
    \/ \E c \in Sessions : LoginRun(c)
    \/ \E c \in Sessions : NewSession(c)

SpecPage == InitPage /\ [][NextPage]_vars

----------------------------------------------------------------------------
(* The pure helpers, each applied once to an argument drawn at the start.    *)
(* Caller 1 holds the argument in its frame and the result after the call;   *)
(* caller 2 verifies a password against the hash that caller 1 made.         *)

UsernameAlphabet == {"a", "b", "c", "1", "_", " ", "@"}
PasswordAlphabet == {"a", "1", "@", " "}
Strings(alphabet, n) == UNION {[1..k -> alphabet] : k \in 0..n}
UsernameStrings == Strings(UsernameAlphabet, MaxUsernameLen)
PasswordStrings == Strings(PasswordAlphabet, MaxPasswordLen)

\* two passwords that validate_password accepts and that differ only in
\* their last character, the one past bcrypt's limit
LongPassword(last) ==
    [i \in 1..BcryptMaxBytes |-> IF i = 1 THEN "1" ELSE IF i = 2 THEN "@" ELSE "a"]
        \o <<last>>

HashPlaintexts ==
    Strings({"a", "1", "@"}, 2)
        \cup {PW1, SEED_ADMIN_PASSWORD, LongPassword("b"), LongPassword("c")}

PureCalls ==
    {[NoFrame EXCEPT !.op = "validate_username", !.username = u] :
        u \in UsernameStrings \cup {None}}
    \cup {[NoFrame EXCEPT !.op = "validate_password", !.password = p] :
            p \in PasswordStrings \cup {None}}
    \cup {[NoFrame EXCEPT !.op = "flat_validate_username", !.username = u] :
            u \in UsernameStrings}
    \cup {[NoFrame EXCEPT !.op = "flat_validate_password", !.password = p] :
            p \in PasswordStrings}
    \cup {[NoFrame EXCEPT !.op = "hash_password", !.password = p] :
            p \in HashPlaintexts}

InitPure ==
    /\ evolution \in BcryptBuilds
    /\ storeUp = TRUE
    /\ session = [c \in Sessions |-> NoSession]
    /\ tables = FALSE
    /\ users = {}
    /\ nextId = 0
    /\ userFile = <<>>
    /\ pc = [c \in Callers |-> "idle"]
    /\ \E f \in PureCalls : frame = [c \in Callers |-> IF c = 1 THEN f ELSE NoFrame]

Returns(c, result) ==
    /\ pc[c] = "idle"
    /\ pc' = [pc EXCEPT ![c] = "done"]
    /\ frame' = [frame EXCEPT ![c].ret = result]
    /\ UNCHANGED <<evolution, storeUp, session, tables, users, nextId, userFile>>

ValidateUsername ==
    /\ frame[1].op = "validate_username"
    /\ Returns(1, validate_username(frame[1].username))

ValidatePassword ==
    /\ frame[1].op = "validate_password"
    /\ Returns(1, validate_password(frame[1].password))

FlatValidateUsername ==
    /\ frame[1].op = "flat_validate_username"
    /\ Returns(1, flat_validate_username(frame[1].username))

FlatValidatePassword ==
    /\ frame[1].op = "flat_validate_password"
    /\ Returns(1, flat_validate_password(frame[1].password))

\* hash_password(plain_text_password) of either program
HashPassword ==
    /\ frame[1].op = "hash_password"
    /\ pc[1] = "idle"
    /\ pc' = [pc EXCEPT ![1] = "done"]
    /\ IF Refuses(evolution, frame[1].password)
       THEN frame' = [frame EXCEPT ![1].exc = "ValueError"]
       ELSE \E salt \in Salts :
                frame' = [frame EXCEPT
                    ![1].pw_hash = hash_password(frame[1].password, salt)]
    /\ UNCHANGED <<evolution, storeUp, session, tables, users, nextId, userFile>>

\* verify_password(plain_text_password, stored_hash) of either program, on the
\* hash that hash_password returned
VerifyPassword ==
    /\ frame[1].op = "hash_password"
    /\ pc[1] = "done"
    /\ frame[1].exc = ""
    /\ pc[2] = "idle"
    /\ \E p \in HashPlaintexts :
         \E v \in {IF Refuses(evolution, p)
                   THEN [exc |-> "ValueError", val |-> FALSE]
                   ELSE verify_password(p, frame[1].pw_hash)} :
            frame' = [frame EXCEPT ![2] =
                         [NoFrame EXCEPT !.op = "verify_password",
                                         !.password = p,
                                         !.pw_hash = frame[1].pw_hash,
                                         !.exc = v.exc,
                                         !.ret = <<v.val>>]]
    /\ pc' = [pc EXCEPT ![2] = "done"]
    /\ UNCHANGED <<evolution, storeUp, session, tables, users, nextId, userFile>>

NextPure ==
    \/ ValidateUsername
    \/ ValidatePassword
    \/ FlatValidateUsername
    \/ FlatValidatePassword
    \/ HashPassword
    \/ VerifyPassword

SpecPure == InitPure /\ [][NextPure]_vars

----------------------------------------------------------------------------
(* The migration on a users.txt of any content: blank lines, lines with too  *)
(* few fields, a one-letter username, a hash that is not bcrypt's, and       *)
(* records, one of them for a username that register_user may have stored.   *)

MigrateLinePool ==
    { <<" ">>,
      <<"c","d",",",",">>,
      <<"c",",","$","2","k">>,
      <<"c","d",",","x","x">>,
      <<"c","d",",","$","2","k",",","a","d","m","i","n">>,
      <<"c","d",",","$","2","z">>,
      <<"a","b",","," ","$","2","n",",","A","d","m","i","n">> }

MigrateFiles == UNION {[1..k -> MigrateLinePool] : k \in 0..MaxLines}

InitMigrate ==
    /\ evolution = "db"
    /\ storeUp = TRUE
    /\ session = [c \in Sessions |-> NoSession]
    /\ tables = FALSE
    /\ users = {}
    /\ nextId = 0
    /\ userFile \in MigrateFiles
    /\ pc = [c \in Callers |-> "idle"]
    /\ frame = [c \in Callers |-> NoFrame]

NextMigrate ==
    \/ CreateTables
    \/ MigrateUsersFromFile
    \/ RegisterUser(<<"a","b">>, PW1, None)

SpecMigrate == InitMigrate /\ [][NextMigrate]_vars

----------------------------------------------------------------------------
(* Outages of the database.  Nothing in users.py or db.py catches what        *)
(* sqlite3 raises, and each of the four calls starts with create_tables().   *)

\* db.py: create_tables(): get_connection() and the CREATE TABLE statements;
\* what it raises
create_tables(up) == IF up THEN "" ELSE "OperationalError"

\* an authenticate_user that takes an outage for an unknown user
authenticate_user_call_swallows(up, tbl, seq, file, username, password) ==
    IF create_tables(up) # ""
    THEN [exc |-> "", ret |-> <<FALSE, None>>, users |-> tbl, seq |-> seq, file |-> file]
    ELSE [exc |-> authenticate_user(tbl, username, password).exc,
          ret |-> authenticate_user(tbl, username, password).ret,
          users |-> tbl, seq |-> seq, file |-> file]

\* an authenticate_user that stores a fresh hash of the password it accepted
authenticate_user_call_rehashes(up, tbl, seq, file, username, password) ==
    IF create_tables(up) # ""
    THEN [exc |-> create_tables(up), ret |-> <<>>, users |-> tbl, seq |-> seq, file |-> file]
    ELSE LET a == authenticate_user(tbl, username, password)
         IN  [exc |-> a.exc, ret |-> a.ret,
              users |-> IF a.exc = "" /\ a.ret[1]
                        THEN DbUpdate(tbl, strip(username), hashpw(password, <<"x">>),
                                      a.ret[2])
                        ELSE tbl,
              seq |-> seq, file |-> file]

\* authenticate_user(username, password), create_tables() included
authenticate_user_call(up, tbl, seq, file, username, password) ==
    IF create_tables(up) # ""
    THEN [exc |-> create_tables(up), ret |-> <<>>, users |-> tbl, seq |-> seq, file |-> file]
    ELSE [exc |-> authenticate_user(tbl, username, password).exc,
          ret |-> authenticate_user(tbl, username, password).ret,
          users |-> tbl, seq |-> seq, file |-> file]

\* login_user(username, password)
login_user_call(up, tbl, seq, file, username, password) ==
    LET a == authenticate_user_call(up, tbl, seq, file, username, password)
    IN  IF a.exc # "" THEN a
        ELSE [a EXCEPT !.ret = <<a.ret[1]>>]

\* get_user_by_username(username): no create_tables() here, and no connection
\* for an empty username; [exc, row]
get_user_by_username_call(up, hasTable, tbl, username) ==
    IF strip(OrElse(username, <<>>)) = <<>> THEN [exc |-> "", row |-> NoRow]
    ELSE IF ~up \/ ~hasTable THEN [exc |-> "OperationalError", row |-> NoRow]
    ELSE [exc |-> "", row |-> get_user_by_username(tbl, username)]

\* is_admin_credentials(username, password)
is_admin_credentials_call(up, tbl, seq, file, username, password) ==
    LET a == authenticate_user_call(up, tbl, seq, file, username, password)
    IN  IF a.exc # "" THEN a
        ELSE [a EXCEPT !.ret = <<a.ret[1] /\ a.ret[2] = ADMIN>>]

\* register_user(username, password, role), create_tables() included
register_user_call(up, tbl, seq, file, username, password, role, salt) ==
    IF create_tables(up) # ""
    THEN [exc |-> create_tables(up), ret |-> <<>>, users |-> tbl, seq |-> seq, file |-> file]
    ELSE register_user(tbl, seq, file, username, password, role, salt)

\* ensure_seed_admin(), create_tables() included
ensure_seed_admin_call(up, tbl, seq, file, salt) ==
    IF create_tables(up) # ""
    THEN [exc |-> create_tables(up), ret |-> <<>>, users |-> tbl, seq |-> seq, file |-> file]
    ELSE ensure_seed_admin(tbl, seq, file, salt)

\* caller c makes the call named op, and o is what the call did
Called(c, op, username, password, role, o) ==
    /\ evolution = "db"
    /\ pc[c] = "idle"
    /\ o.seq <= MaxId
    /\ tables' = (tables \/ storeUp)
    /\ users' = o.users
    /\ nextId' = o.seq
    /\ userFile' = o.file
    /\ Finish(c, [NoFrame EXCEPT !.op = op, !.username = username,
                                 !.password = password, !.role = role,
                                 !.exc = o.exc, !.ret = o.ret])
    /\ UNCHANGED <<evolution, storeUp, session>>

AuthenticateUserCall(c) ==
    \E username \in ConcUsernameInputs, password \in PasswordInputs :
        Called(c, "authenticate_user", username, password, None,
               authenticate_user_call(storeUp, users, nextId, userFile,
                                      username, password))

IsAdminCredentialsCall(c) ==
    \E username \in ConcUsernameInputs, password \in PasswordInputs :
        Called(c, "is_admin_credentials", username, password, None,
               is_admin_credentials_call(storeUp, users, nextId, userFile,
                                         username, password))

RegisterUserCall(c) ==
    \E username \in ConcUsernameInputs, password \in ConcPasswordInputs,
       role \in ConcRoleInputs, salt \in Salts :
        Called(c, "register_user", username, password, role,
               register_user_call(storeUp, users, nextId, userFile,
                                  username, password, role, salt))

EnsureSeedAdminCall(c) ==
    \E salt \in Salts :
        Called(c, "ensure_seed_admin", None, None, None,
               ensure_seed_admin_call(storeUp, users, nextId, userFile, salt))

LoginUserCall(c) ==
    \E username \in ConcUsernameInputs, password \in PasswordInputs :
        Called(c, "login_user", username, password, None,
               login_user_call(storeUp, users, nextId, userFile, username, password))

CreateTablesCall(c) ==
    Called(c, "create_tables", None, None, None,
           [exc |-> create_tables(storeUp), ret |-> <<>>,
            users |-> users, seq |-> nextId, file |-> userFile])

GetUserByUsernameCall(c) ==
    /\ evolution = "db"
    /\ pc[c] = "idle"
    /\ \E username \in ConcUsernameInputs \cup {<<>>} :
         \E o \in {get_user_by_username_call(storeUp, tables, users, username)} :
            Finish(c, [NoFrame EXCEPT !.op = "get_user_by_username",
                                      !.username = username,
                                      !.existing = o.row,
                                      !.exc = o.exc])
    /\ UNCHANGED <<evolution, storeUp, session, tables, users, nextId, userFile>>

\* the caller goes on to its next call
NextCall(c) ==
    /\ pc[c] = "done"
    /\ pc' = [pc EXCEPT ![c] = "idle"]
    /\ frame' = [frame EXCEPT ![c] = NoFrame]
    /\ UNCHANGED <<evolution, storeUp, session, tables, users, nextId, userFile>>

\* intelligence.db becomes unreachable, or reachable again
StoreGoesDown ==
    /\ storeUp
    /\ storeUp' = FALSE
    /\ UNCHANGED <<evolution, session, tables, users, nextId, userFile, pc, frame>>

StoreComesBack ==
    /\ ~storeUp
    /\ storeUp' = TRUE
    /\ UNCHANGED <<evolution, session, tables, users, nextId, userFile, pc, frame>>

InitOutage == Init /\ evolution = "db"

NextOutage ==
    \/ StoreGoesDown
    \/ StoreComesBack
    \/ \E c \in Sessions : AuthenticateUserCall(c)
    \/ \E c \in Sessions : IsAdminCredentialsCall(c)
    \/ \E c \in Sessions : RegisterUserCall(c)
    \/ \E c \in Sessions : EnsureSeedAdminCall(c)
    \/ \E c \in Sessions : LoginUserCall(c)
    \/ \E c \in Sessions : CreateTablesCall(c)
    \/ \E c \in Sessions : GetUserByUsernameCall(c)
    \/ \E c \in Sessions : NextCall(c)

SpecOutage == InitOutage /\ [][NextOutage]_vars

----------------------------------------------------------------------------
(* auth_functions.py with two concurrent callers: register_user reads        *)
(* users.txt to the end, and only then hashes and appends.  Nothing locks    *)
(* the file between the two.                                                 *)

\* register_user: the scan of users.txt for the username
FlatRegScan(c, username, password) ==
    /\ evolution = "flat"
    /\ pc[c] = "idle"
    /\ \E f \in {[NoFrame EXCEPT !.op = "flat_register_user",
                                 !.username = username,
                                 !.password = password]} :
         IF flat_username_taken(userFile, username)
         THEN Finish(c, [f EXCEPT !.ret = <<FALSE>>])
         ELSE /\ pc' = [pc EXCEPT ![c] = "flat_append"]
              /\ frame' = [frame EXCEPT ![c] = f]
    /\ UNCHANGED <<evolution, storeUp, session, tables, users, nextId, userFile>>

\* register_user: hash_password, the append to users.txt, return True
FlatRegAppend(c) ==
    /\ pc[c] = "flat_append"
    /\ \E salt \in Salts :
         \E pw_hash \in {hash_password(frame[c].password, salt)} :
            /\ userFile' = Append(userFile, Line2(frame[c].username, pw_hash))
            /\ Finish(c, [frame[c] EXCEPT !.pw_hash = pw_hash, !.ret = <<TRUE>>])
    /\ UNCHANGED <<evolution, storeUp, session, tables, users, nextId>>

InitFlatConc == Init /\ evolution = "flat"

NextFlatConc ==
    \/ \E c \in Callers, u \in FlatUsernameInputs, p \in FlatPasswordInputs :
           FlatRegScan(c, u, p)
    \/ \E c \in Callers : FlatRegAppend(c)

SpecFlatConc == InitFlatConc /\ [][NextFlatConc]_vars

----------------------------------------------------------------------------
(* One browser session across the pages.  A step is one rerun of a page's     *)
(* script, with the reruns that st.switch_page starts.  session[c].view is    *)
(* what the session sees afterwards: "login", "home", "cyber", "data", or,    *)
(* with the delete controls on the screen, "cyber_delete" and "data_delete".  *)

\* a Login handler that leaves the role of the session as it finds it
login_session_keeps_role(sess, username, role) ==
    [sess EXCEPT !.logged_in = TRUE, !.username = username]

\* 1_Login.py lines 128-130
login_session(sess, username, role) ==
    [sess EXCEPT !.logged_in = TRUE, !.username = username, !.role = role]

\* 2_Cybersecurity.py lines 428-429
cyber_delete_allowed(sess) == lower(OrElse(sess.role, <<>>)) = ADMIN

\* 4_Data_Science.py line 536
data_delete_allowed(sess) == sess.role = ADMIN

\* the top of 1_Login.py: current_page, the startup block, db_initialised
login_page_top(sess) ==
    [sess EXCEPT !.current_page = "Login", !.db_initialised = TRUE, !.view = "login"]

\* the store after a rerun that left o behind
StoreBecomes(o) ==
    /\ o.exc = ""
    /\ o.seq <= MaxId
    /\ tables' = TRUE
    /\ users' = o.users
    /\ nextId' = o.seq
    /\ userFile' = o.file

\* the Login page is opened or rerun, no button pressed
VisitLogin(c) ==
    /\ evolution = "db"
    /\ \E salt \in Salts :
         StoreBecomes(page_startup(session[c].db_initialised, users, nextId,
                                   userFile, salt))
    /\ session' = [session EXCEPT ![c] = login_page_top(@)]
    /\ UNCHANGED <<evolution, storeUp, pc, frame>>

\* Login mode, the Login button: 1_Login.py lines 116-135, and on success the
\* Cybersecurity page that switch_page runs
LoginPress(c) ==
    /\ evolution = "db"
    /\ \E salt \in Salts :
         \E st \in {page_startup(session[c].db_initialised, users, nextId,
                                 userFile, salt)} :
            /\ StoreBecomes(st)
            /\ \E username \in LoginUsernameInputs, password \in LoginPasswordInputs :
                 \E o \in {login_flow(st.users, username, password)} :
                    session' = [session EXCEPT ![c] =
                        IF o.exc = "" /\ o.msg = "Welcome"
                        THEN [login_session(login_page_top(@), username, o.role)
                                 EXCEPT !.current_page = "Cybersecurity",
                                        !.view = "cyber",
                                        !.last_auth = o.role,
                                        !.last_login = o.role]
                        ELSE login_page_top(@)]
    /\ UNCHANGED <<evolution, storeUp, pc, frame>>

\* Register mode, the Register button: 1_Login.py lines 70-110; the approval of
\* lines 81-83 is an authenticate_user call with the approver's credentials
RegisterPress(c) ==
    /\ evolution = "db"
    /\ \E s1 \in Salts, s2 \in Salts, register_as_admin \in BOOLEAN :
         \E st \in {page_startup(session[c].db_initialised, users, nextId,
                                 userFile, s1)} :
            /\ st.exc = ""
            /\ \E a \in (IF register_as_admin THEN ApproverInputs ELSE {<< <<>>, <<>> >>}) :
                 \E approval \in {authenticate_user(st.users, a[1], a[2])} :
                    /\ StoreBecomes(register_flow(st.users, st.seq, st.file,
                                                  <<"a","b">>, PW1, PW1,
                                                  register_as_admin, a[1], a[2], s2))
                    /\ session' = [session EXCEPT ![c] =
                         IF /\ register_as_admin /\ a[1] # <<>> /\ a[2] # <<>>
                            /\ approval.exc = "" /\ approval.ret[1]
                         THEN [login_page_top(@) EXCEPT !.last_auth = approval.ret[2]]
                         ELSE login_page_top(@)]
    /\ UNCHANGED <<evolution, storeUp, pc, frame>>

\* a page behind the login is opened with the tab named: without logged_in the
\* script switches to the Login page, which runs from its top
VisitDashboard(c, page, view, salt) ==
    /\ evolution = "db"
    /\ IF session[c].logged_in
       THEN /\ session' = [session EXCEPT ![c].current_page = page, ![c].view = view]
            /\ UNCHANGED <<tables, users, nextId, userFile>>
       ELSE /\ StoreBecomes(page_startup(session[c].db_initialised, users, nextId,
                                         userFile, salt))
            /\ session' = [session EXCEPT ![c] = login_page_top(@)]
    /\ UNCHANGED <<evolution, storeUp, pc, frame>>

\* 2_Cybersecurity.py, with the Delete tab open or another one
VisitCybersecurity(c) ==
    \E tab \in {"dashboard", "delete"}, salt \in Salts :
        VisitDashboard(c, "Cybersecurity",
                       IF tab = "delete" /\ cyber_delete_allowed(session[c])
                       THEN "cyber_delete" ELSE "cyber", salt)

\* 4_Data_Science.py, with the Delete tab open or another one
VisitDataScience(c) ==
    \E tab \in {"dashboard", "delete"}, salt \in Salts :
        VisitDashboard(c, "Data Science",
                       IF tab = "delete" /\ data_delete_allowed(session[c])
                       THEN "data_delete" ELSE "data", salt)

\* app.py: create_tables() and the migration once per session; the landing page
VisitHome(c) ==
    /\ evolution = "db"
    /\ \E m \in {IF session[c].db_initialised
                 THEN [exc |-> "", users |-> users, seq |-> nextId]
                 ELSE MigrateLines(userFile, TRUE, users, nextId)} :
         StoreBecomes([exc |-> m.exc, users |-> m.users, seq |-> m.seq,
                       file |-> userFile])
    /\ session' = [session EXCEPT ![c].db_initialised = TRUE, ![c].view = "home"]
    /\ UNCHANGED <<evolution, storeUp, pc, frame>>

\* a Logout button is pressed and the Login page runs; keeps_role tells the
\* scripts that leave st.session_state["role"] as it is
Logout(c, keeps_role) ==
    /\ evolution = "db"
    /\ session[c].logged_in
    /\ \E salt \in Salts :
         StoreBecomes(page_startup(session[c].db_initialised, users, nextId,
                                   userFile, salt))
    /\ session' = [session EXCEPT ![c] =
                     login_page_top([@ EXCEPT !.logged_in = FALSE,
                                              !.username = None,
                                              !.role = IF keeps_role THEN @ ELSE None])]
    /\ UNCHANGED <<evolution, storeUp, pc, frame>>

\* 2_Cybersecurity.py lines 33-37
CyberLogout(c) ==
    /\ session[c].view \in {"cyber", "cyber_delete"}
    /\ Logout(c, FALSE)

\* 4_Data_Science.py lines 61-64
DataScienceLogout(c) ==
    /\ session[c].view \in {"data", "data_delete"}
    /\ Logout(c, TRUE)

\* app.py lines 24-31
HomeLogout(c) ==
    /\ session[c].view = "home"
    /\ session[c].current_page # "Login"
    /\ Logout(c, TRUE)

\* the browser tab is reloaded: st.session_state is empty again
ReloadTab(c) ==
    /\ session[c] # NoSession
    /\ session' = [session EXCEPT ![c] = NoSession]
    /\ UNCHANGED <<evolution, storeUp, tables, users, nextId, userFile, pc, frame>>

InitSession == Init /\ evolution = "db"

NextSession ==
    \/ \E c \in Sessions : VisitLogin(c)
    \/ \E c \in Sessions : LoginPress(c)
    \/ \E c \in Sessions : RegisterPress(c)
    \/ \E c \in Sessions : VisitCybersecurity(c)
    \/ \E c \in Sessions : VisitDataScience(c)
    \/ \E c \in Sessions : VisitHome(c)
    \/ \E c \in Sessions : CyberLogout(c)
    \/ \E c \in Sessions : DataScienceLogout(c)
    \/ \E c \in Sessions : HomeLogout(c)
    \/ \E c \in Sessions : ReloadTab(c)

SpecSession == InitSession /\ [][NextSession]_vars

----------------------------------------------------------------------------
(* Claims.  A claim about what a call returns is stated on the call's        *)
(* function, applied to every reachable store and every input.               *)

SeedRows(tbl) == RowsOf(tbl, SEED_ADMIN_USERNAME)
NonSeedRows(tbl) == tbl \ SeedRows(tbl)
Verifies(password, stored_hash) ==
    verify_password(password, stored_hash) = [exc |-> "", val |-> TRUE]
FileLines == {userFile[i] : i \in 1..Len(userFile)}

\* the role a register_user caller means by each input spelling
AdminSpellings == {ADMIN, <<" ","A","d","m","i","n">>}
MeantRole(role) == IF role \in AdminSpellings THEN ADMIN ELSE ANALYST

\* C1: for every valid username and password and every store without the username,
\* register_user returning True followed at once by authenticate_user with the same
\* credentials returns (True, the normalized role stored, analyst by default); in
\* the flat-file evolution login_user returns True.
C1_RegisterThenAuthenticate ==
    /\ evolution = "db" =>
         \A u \in UsernameInputs, p \in PasswordInputs, r \in RoleInputs, s \in Salts :
           (/\ validate_username(u)[1]
            /\ validate_password(p)[1]
            /\ get_user_by_username(users, u) = NoRow)
           => LET o == register_user(users, nextId, userFile, u, p, r, s)
              IN  o.ret = <<TRUE>> =>
                    /\ authenticate_user(o.users, u, p)
                         = [exc |-> "", ret |-> <<TRUE, MeantRole(r)>>]
                    /\ get_user_by_username(o.users, u).role = MeantRole(r)
    /\ evolution = "flat" =>
         \A u \in FlatUsernameInputs, p \in FlatPasswordInputs, s \in Salts :
           (/\ flat_validate_username(u)[1]
            /\ flat_validate_password(p)[1]
            /\ ~flat_username_taken(userFile, u))
           => LET o == flat_register_user(userFile, u, p, s)
              IN  o.ret = <<TRUE>> =>
                    flat_login_user(o.file, u, p) = [exc |-> "", ret |-> <<TRUE>>]

\* C1 witness: a valid user registered as " Admin" is in the store, with its
\* users.txt line, and authenticates as admin.
C1_Witness ==
    /\ evolution = "db"
    /\ validate_username(<<" ","a","b">>)[1] /\ validate_password(PW1)[1]
    /\ \E row \in users :
         /\ row.username = <<"a","b">>
         /\ row.role = ADMIN
         /\ Line3(row.username, row.password_hash, row.role) \in FileLines
    /\ authenticate_user(users, <<" ","a","b">>, PW1) = [exc |-> "", ret |-> <<TRUE, ADMIN>>]

\* C2 (as claimed): for every username that has a record, a second register_user
\* with that username, any password and any role returns False and leaves the
\* table and users.txt unchanged.
C2_DuplicateReturnsFalse ==
    evolution = "db" =>
      \A row \in users, p \in PasswordInputs, r \in RoleInputs, s \in Salts :
        LET o == register_user(users, nextId, userFile, row.username, p, r, s)
        IN  /\ o.exc = ""
            /\ o.ret = <<FALSE>>
            /\ o.users = users
            /\ o.file = userFile

\* C3 (as claimed): authenticate_user returns exactly (False, None) when the
\* username has no record and when it has one that the password does not verify
\* against; a failed attempt never returns the role.
C3_FailureIsFalseNone ==
    evolution = "db" =>
      \A u \in UsernameInputs \cup {row.username : row \in users}, p \in PasswordInputs :
        LET a == authenticate_user(users, u, p)
            row == get_user_by_username(users, u)
        IN  (row = NoRow \/ ~Verifies(p, row.password_hash))
            => a = [exc |-> "", ret |-> <<FALSE, None>>]

\* C4: the users table holds at most one row per username, in every state
\* reachable by interleaved register_user and ensure_seed_admin calls,
\* migrate_users_from_file and create_tables.
C4_UniqueUsernames ==
    \A r1 \in users, r2 \in users : r1.username = r2.username => r1 = r2

\* C4 witness: two callers passed the pre-check for the same username, one row
\* was inserted and the other INSERT was rejected.
C4_Witness ==
    \E c1 \in Callers, c2 \in Callers :
      /\ c1 # c2
      /\ frame[c1].op = "register_user" /\ frame[c2].op = "register_user"
      /\ frame[c1].username = frame[c2].username
      /\ frame[c1].existing = NoRow /\ frame[c2].existing = NoRow
      /\ pc[c1] \in {"reg_mirror", "done"} /\ frame[c1].exc = ""
      /\ pc[c2] = "done" /\ frame[c2].exc = "IntegrityError"
      /\ Cardinality(RowsOf(users, frame[c1].username)) = 1

\* C5: when two register_user calls for the same new username interleave, at most
\* one returns True and exactly one row for the username exists afterwards.
C5_OneWinner ==
    \A c1 \in Callers, c2 \in Callers :
      (/\ c1 # c2
       /\ pc[c1] = "done" /\ pc[c2] = "done"
       /\ frame[c1].op = "register_user" /\ frame[c2].op = "register_user"
       /\ frame[c1].username = frame[c2].username
       /\ frame[c1].existing = NoRow /\ frame[c2].existing = NoRow)
      => /\ ~(frame[c1].ret = <<TRUE>> /\ frame[c2].ret = <<TRUE>>)
         /\ Cardinality(RowsOf(users, frame[c1].username)) = 1

\* C5 witness: both calls raced past the pre-check and ended, one with True.
C5_Witness ==
    \E c1 \in Callers, c2 \in Callers :
      /\ c1 # c2
      /\ pc[c1] = "done" /\ pc[c2] = "done"
      /\ frame[c1].op = "register_user" /\ frame[c2].op = "register_user"
      /\ frame[c1].username = frame[c2].username
      /\ frame[c1].existing = NoRow /\ frame[c2].existing = NoRow
      /\ frame[c1].ret = <<TRUE>> /\ frame[c2].ret # <<TRUE>>

\* C6 (as claimed): a register_user call that loses the race for a username (its
\* pre-check saw no row, and the other register_user call inserted the row for
\* that username first) returns False and does not raise.
C6_LoserReturnsFalse ==
    \A c \in Callers, d \in Callers :
      (/\ c # d
       /\ pc[c] = "done"
       /\ frame[c].op = "register_user" /\ frame[d].op = "register_user"
       /\ frame[c].existing = NoRow
       /\ frame[c].ret # <<TRUE>>
       /\ \E row \in RowsOf(users, frame[c].username) :
            row.password_hash = frame[d].pw_hash)
      => (frame[c].exc = "" /\ frame[c].ret = <<FALSE>>)

\* exactly one seed row, with role admin and a hash of the fixed seed password
SeedIsAdmin(tbl) ==
    /\ Cardinality(SeedRows(tbl)) = 1
    /\ \A row \in SeedRows(tbl) :
         row.role = ADMIN /\ Verifies(SEED_ADMIN_PASSWORD, row.password_hash)

\* C7: from any store, after one and after two ensure_seed_admin calls in a row
\* there is exactly one seed row, role admin, hash verifying the seed password;
\* the rows of other users are untouched and the second call adds no row.
C7_SeedIdempotent ==
    evolution = "db" =>
      \A s1 \in Salts, s2 \in Salts :
        LET o1 == ensure_seed_admin(users, nextId, userFile, s1)
            o2 == ensure_seed_admin(o1.users, o1.seq, o1.file, s2)
        IN  /\ o1.exc = "" /\ o2.exc = ""
            /\ SeedIsAdmin(o1.users) /\ SeedIsAdmin(o2.users)
            /\ NonSeedRows(o1.users) = NonSeedRows(users)
            /\ NonSeedRows(o2.users) = NonSeedRows(users)
            /\ Cardinality(o2.users) = Cardinality(o1.users)

\* C7 witness: ensure_seed_admin ran at least twice beside another user's row: the
\* seed line it appended to users.txt carries an older salt than the row.
C7_Witness ==
    /\ evolution = "db"
    /\ SeedIsAdmin(users)
    /\ NonSeedRows(users) # {}
    /\ \E row \in SeedRows(users), salt \in Salts :
         /\ Line3(SEED_ADMIN_USERNAME, hashpw(SEED_ADMIN_PASSWORD, salt),
                  SEED_ADMIN_ROLE) \in FileLines
         /\ row.password_hash # hashpw(SEED_ADMIN_PASSWORD, salt)

\* a seed row whose role is not admin or whose hash is not of the seed password
Tampered(row) ==
    row.role # ADMIN \/ ~Verifies(SEED_ADMIN_PASSWORD, row.password_hash)

\* C8: if the seed row exists with another role or a hash that does not verify the
\* seed password, one ensure_seed_admin call leaves it with role admin, a hash
\* that verifies the seed password, and the same id.
C8_SeedSelfHealing ==
    evolution = "db" =>
      \A row \in SeedRows(users), s \in Salts :
        Tampered(row) =>
          LET o == ensure_seed_admin(users, nextId, userFile, s)
          IN  /\ o.exc = ""
              /\ SeedIsAdmin(o.users)
              /\ \A after \in SeedRows(o.users) : after.id = row.id

\* C8 witness: users.txt holds the line register_user wrote for the seed username
\* with another password and role analyst, and the only row ever inserted is now
\* the repaired seed row.
C8_Witness ==
    /\ evolution = "db"
    /\ Line3(SEED_ADMIN_USERNAME, hashpw(PW1, <<"y">>), ANALYST) \in FileLines
    /\ nextId = 1
    /\ SeedIsAdmin(users)
    /\ \A row \in SeedRows(users) : row.id = 1

\* C9 (as claimed): two ensure_seed_admin calls that both read existing = None
\* before either writes, one of which created the seed row, both complete
\* without error, leaving exactly one seed row with role admin.
C9_ConcurrentSeedSafe ==
    \A c1 \in Callers, c2 \in Callers :
      (/\ c1 # c2
       /\ pc[c1] = "done" /\ pc[c2] = "done"
       /\ frame[c1].op = "ensure_seed_admin" /\ frame[c2].op = "ensure_seed_admin"
       /\ frame[c1].existing = NoRow /\ frame[c2].existing = NoRow
       /\ \E row \in SeedRows(users) : row.password_hash = frame[c1].pw_hash)
      => /\ frame[c1].exc = "" /\ frame[c2].exc = ""
         /\ SeedIsAdmin(users)

\* role columns a users.txt line may carry
MigrateRoleInputs == {<<"u","s","e","r">>, <<"v","i","e","w","e","r">>,
                      <<"A","D","M","I","N">>, <<" ","U","S","E","R">>, ANALYST}

\* C10: every stored role is analyst or admin; register_user stores the meant role
\* for recognized spellings and analyst for anything else, and its outcome does
\* not depend on the role argument; migrate_users_from_file stores analyst or
\* admin for any role column or none.
C10_RolesAreRecognized ==
    /\ \A row \in users : row.role \in {ANALYST, ADMIN}
    /\ evolution = "db" =>
         \A u \in UsernameInputs, p \in PasswordInputs, r \in RoleInputs, s \in Salts :
           LET o == register_user(users, nextId, userFile, u, p, r, s)
               plain == register_user(users, nextId, userFile, u, p, ANALYST, s)
           IN  /\ o.ret = plain.ret /\ o.exc = plain.exc
               /\ \A row \in o.users \ users : row.role = MeantRole(r)
    /\ evolution = "db" =>
         \A r \in MigrateRoleInputs :
           LET h == hashpw(PW1, <<"x">>)
               m == MigrateLines(<<Line3(<<"g","h">>, h, r), Line2(<<"i","j">>, h)>>,
                                 TRUE, users, nextId)
           IN  /\ m.exc = ""
               /\ {row.username : row \in m.users \ users} = {<<"g","h">>, <<"i","j">>}
               /\ \A row \in m.users \ users :
                    row.role = (IF lower(strip(r)) = ADMIN /\ row.username = <<"g","h">>
                                THEN ADMIN ELSE ANALYST)

\* C10 witness: the row migrated from a line with role " USER" holds analyst, and
\* a row registered by register_user (it has the line register_user appended)
\* holds analyst beside it.
C10_Witness ==
    /\ evolution = "db"
    /\ \E row \in users :
         /\ row.username = <<"c","d">>
         /\ row.role = ANALYST
         /\ Line3(row.username, row.password_hash, <<" ","U","S","E","R">>) \in FileLines
    /\ \E row \in users :
         /\ row.username = <<"a","b">>
         /\ row.role = ANALYST
         /\ Line3(row.username, row.password_hash, ANALYST) \in FileLines

\* a registration attempt that left the store and users.txt as they were
Untouched(o) == o.users = users /\ o.seq = nextId /\ o.file = userFile

\* C11 (as claimed): a registration with an invalid username yields the username
\* reason, whatever the password and whether or not the username is taken; one
\* with a valid username and an invalid password yields the password reason; in
\* both cases no record is created and users.txt is not appended.
C11_ChecksInOrder ==
    \A u \in PageUsernameInputs, p \in PagePasswordInputs, cp \in PageConfirmInputs,
       adm \in BOOLEAN, a \in ApproverInputs, s \in Salts :
      LET o == register_flow(users, nextId, userFile, u, p, cp, adm, a[1], a[2], s)
      IN  /\ ~validate_username(u)[1]
               => o.exc = "" /\ o.msg = validate_username(u)[2] /\ Untouched(o)
          /\ (validate_username(u)[1] /\ ~validate_password(p)[1])
               => o.exc = "" /\ o.msg = validate_password(p)[2] /\ Untouched(o)

\* C11 (amended): the Register handler first rejects an empty username, password
\* or confirmation with "Please fill in all the fields."; with all three filled
\* in, an invalid username yields the username reason whatever the password, and
\* a valid username with an invalid password yields the password reason; in all
\* these cases no record is created and users.txt is not appended.  The checks
\* are the handler's: register_user itself accepts an invalid username and an
\* invalid password.
C11_ChecksInOrderWhenFilled ==
    /\ \A u \in PageUsernameInputs, p \in PagePasswordInputs, cp \in PageConfirmInputs,
          adm \in BOOLEAN, a \in ApproverInputs, s \in Salts :
         LET o == register_flow(users, nextId, userFile, u, p, cp, adm, a[1], a[2], s)
         IN  /\ o.exc = ""
             /\ (u = <<>> \/ p = <<>> \/ cp = <<>>)
                  => o.msg = MsgFillFields /\ Untouched(o)
             /\ (u # <<>> /\ p # <<>> /\ cp # <<>> /\ ~validate_username(u)[1])
                  => o.msg = validate_username(u)[2] /\ Untouched(o)
             /\ (u # <<>> /\ p # <<>> /\ cp # <<>> /\ validate_username(u)[1]
                   /\ ~validate_password(p)[1])
                  => o.msg = validate_password(p)[2] /\ Untouched(o)
    /\ \A u \in PageUsernameInputs, p \in PagePasswordInputs, s \in Salts :
         (RowsOf(users, strip(u)) = {} /\ u # <<>>)
           => register_user(users, nextId, userFile, u, p, ANALYST, s).ret = <<TRUE>>

\* C11 witness: the last rerun was a registration with a username holding a space
\* and a password without a digit; it showed the username reason, and the store
\* holds the seed account and nothing under that username.
C11_Witness ==
    /\ frame[1].op = "register"
    /\ frame[1].username = <<"a"," ","b">>
    /\ frame[1].password = NoDigitPassword
    /\ frame[1].ret = <<"Username cannot contain spaces.">>
    /\ RowsOf(users, <<"a"," ","b">>) = {}
    /\ SeedRows(users) # {}

\* C12 (as claimed): is_admin_credentials(username, password) returns True exactly
\* when the store, as it is at the call, holds a record for the (stripped)
\* username whose hash the password verifies against and whose role is admin.
C12_AdminIffStoreSaysSo ==
    evolution = "db" =>
      \A u \in UsernameInputs, p \in PasswordInputs :
        LET o == is_admin_credentials(users, u, p)
        IN  (o.exc = "" /\ o.ret)
              <=> \E row \in RowsOf(users, strip(u)) :
                    Verifies(p, row.password_hash) /\ row.role = ADMIN

\* C13: a registration attempt through the Register flow creates (or turns a
\* record into) a record with role admin only if the admin box was ticked, both
\* approver fields were filled in and is_admin_credentials returned True for them
\* on the store of that same attempt; this holds in every state a sequence of
\* page reruns reaches.
C13_AdminOnlyWithApproval ==
    \A u \in PageUsernameInputs, p \in PagePasswordInputs, cp \in PageConfirmInputs,
       adm \in BOOLEAN, a \in ApproverInputs, s \in Salts :
      LET o == register_flow(users, nextId, userFile, u, p, cp, adm, a[1], a[2], s)
      IN  (\E row \in o.users \ users : row.role = ADMIN)
            => /\ adm
               /\ a[1] # <<>> /\ a[2] # <<>>
               /\ is_admin_credentials(users, a[1], a[2]) = [exc |-> "", ret |-> TRUE]

\* C13 witness: the last rerun registered "ab" as admin, and in this state an
\* admin registration approved with a wrong password for "ab" is refused.
C13_Witness ==
    /\ frame[1].op = "register"
    /\ frame[1].username = <<"a","b">>
    /\ frame[1].ret = <<MsgRegistered(ADMIN)>>
    /\ \E row \in RowsOf(users, <<"a","b">>) : row.role = ADMIN
    /\ \E s \in Salts :
         register_flow(users, nextId, userFile, SEED_ADMIN_USERNAME, PW1, PW1, TRUE,
                       <<"a","b">>, SEED_ADMIN_PASSWORD, s).msg = MsgAdminFailed

\* C14: a failed authenticate_user attempt (wrong password or unknown user) leaves
\* the store, the id sequence and users.txt as they were, so whatever
\* authenticate_user returned for a username and password before the failed
\* attempt, (True, role) for the correct password included, it returns after it.
C14_FailedAttemptChangesNothing ==
    [][(\E c \in Callers : frame'[c].failed > frame[c].failed)
         => /\ users' = users /\ nextId' = nextId /\ userFile' = userFile
            /\ \A u \in ConcUsernameInputs, p \in PasswordInputs :
                 authenticate_user(users', u, p) = authenticate_user(users, u, p)]_vars

\* C14 witness: a caller failed as often as the model lets it, then authenticated
\* with the correct password and got (True, role).
C14_Witness ==
    \E c \in Callers :
      /\ pc[c] = "done"
      /\ frame[c].op = "authenticate_user"
      /\ frame[c].failed > 1
      /\ frame[c].ret[1]
      /\ \E row \in RowsOf(users, strip(frame[c].username)) : frame[c].ret[2] = row.role

\* the lines appended to users.txt since the start
AppendedLines ==
    LET n == IF Len(userFile) >= Len(LegacyFile)
                /\ SubSeq(userFile, 1, Len(LegacyFile)) = LegacyFile
             THEN Len(LegacyFile) ELSE 0
    IN  {userFile[i] : i \in (n + 1)..Len(userFile)}

\* C15: register_user appends its line only after its INSERT is committed and only
\* when the INSERT succeeded, and the line is the triple it inserted: a caller
\* about to append has its record in the store (as inserted, or, for the seed
\* username, as ensure_seed_admin rewrote it since); a caller that returned True
\* has its triple in users.txt; every appended line belongs to a username with a
\* record; and a failed append leaves the record in the store.
C15_MirrorAfterCommit ==
    /\ \A c \in Callers :
         (frame[c].op = "register_user" /\ pc[c] = "reg_mirror")
           => \E row \in RowsOf(users, frame[c].username) :
                \/ row.password_hash = frame[c].pw_hash /\ row.role = frame[c].role
                \/ row.username = SEED_ADMIN_USERNAME
    /\ \A c \in Callers :
         (frame[c].op = "register_user" /\ pc[c] = "done" /\ frame[c].ret = <<TRUE>>)
           => Line3(frame[c].username, frame[c].pw_hash, frame[c].role) \in FileLines
    /\ \A line \in AppendedLines : RowsOf(users, split(line, ",")[1]) # {}
    /\ \A c \in Callers :
         (frame[c].op = "register_user" /\ frame[c].exc = "OSError")
           => RowsOf(users, frame[c].username) # {}

\* C15 witness: one register_user returned True with its line in users.txt and its
\* record in the store; another's append failed, its record is in the store and
\* users.txt has no line for it.
C15_Witness ==
    \E c \in Callers, d \in Callers :
      /\ frame[c].op = "register_user" /\ frame[c].ret = <<TRUE>>
      /\ Line3(frame[c].username, frame[c].pw_hash, frame[c].role) \in FileLines
      /\ \E row \in RowsOf(users, frame[c].username) :
           row.password_hash = frame[c].pw_hash
      /\ frame[d].op = "register_user" /\ frame[d].exc = "OSError"
      /\ RowsOf(users, frame[d].username) # {}
      /\ ~userfile_has_username(userFile, frame[d].username)

\* the lines of a users.txt whose first field is the seed username
SeedLines(file) ==
    {i \in 1..Len(file) : StripAll(split(file[i], ","))[1] = SEED_ADMIN_USERNAME}

\* C16: after ensure_seed_admin returns, users.txt has a line whose first field is
\* the seed username; if the file had none, exactly one line is appended and its
\* hash is the hash the seed record holds after the call; if the file had one,
\* the file is left as it was; a second call in a row appends nothing.
C16_SeedMirrorLine ==
    evolution = "db" =>
      \A s1 \in Salts, s2 \in Salts :
        LET o1 == ensure_seed_admin(users, nextId, userFile, s1)
            o2 == ensure_seed_admin(o1.users, o1.seq, o1.file, s2)
        IN  /\ o1.exc = "" /\ o2.exc = ""
            /\ SeedLines(o1.file) # {}
            /\ SeedLines(userFile) # {} => o1.file = userFile
            /\ SeedLines(userFile) = {} =>
                 \E row \in SeedRows(o1.users) :
                   o1.file = Append(userFile, Line3(SEED_ADMIN_USERNAME,
                                                    row.password_hash, SEED_ADMIN_ROLE))
            /\ o2.file = o1.file

\* C16 witness: users.txt ends with the one seed line ensure_seed_admin appended,
\* after a line register_user wrote, and a later call has since re-hashed the
\* seed record without touching the file.
C16_Witness ==
    /\ evolution = "db"
    /\ Cardinality(SeedLines(userFile)) = 1
    /\ Len(userFile) > 1
    /\ \E salt \in Salts :
         /\ userFile[Len(userFile)] = Line3(SEED_ADMIN_USERNAME,
                                            hashpw(SEED_ADMIN_PASSWORD, salt),
                                            SEED_ADMIN_ROLE)
         /\ \E row \in SeedRows(users) :
              /\ row.password_hash # hashpw(SEED_ADMIN_PASSWORD, salt)
              /\ Verifies(SEED_ADMIN_PASSWORD, row.password_hash)
    /\ userFile[1] # <<>>

\* The rules of the two validators, each a pair <<violated, reason>>, in the
\* order in which the code tests them.
UsernameRules(u) ==
    << <<Len(u) < 2, "Username must be at least 2 characters.">>,
       <<\E i \in 1..Len(u) : u[i] = " ", "Username cannot contain spaces.">>,
       <<\E i \in 1..Len(u) : u[i] \notin UsernameChars,
         "Username can only contain letters, numbers, and underscore (_).">> >>

PasswordRules(p) ==
    << <<Len(p) < 5, "Password must be at least 5 characters.">>,
       <<\A i \in 1..Len(p) : ~isdigit(p[i]), "Password must contain at least 1 number.">>,
       <<\A i \in 1..Len(p) : ~isalpha(p[i]), "Password must contain at least 1 letter.">>,
       <<\A i \in 1..Len(p) : isalnum(p[i]),
         "Password must contain at least 1 special character (e.g., @, #, !).">> >>

FlatUsernameRules(u) ==
    << <<Len(u) < 3, "Username must be at least 3 characters long.">>,
       <<\E i \in 1..Len(u) : u[i] = " ", "Username cannot contain spaces.">>,
       <<\E i \in 1..Len(u) : ~isalnum(u[i]),
         "Username can only contain letters and numbers.">> >>

FlatPasswordRules(p) ==
    << <<Len(p) < 6, "Password must be at least 6 characters long.">>,
       <<\A i \in 1..Len(p) : ~isdigit(p[i]), "Password must contain at least one number.">>,
       <<\A i \in 1..Len(p) : ~isalpha(p[i]), "Password must contain at least one letter.">> >>

\* the order of the username rules in the specification's table:
\* minimum length, character set, spaces
TableOrder(rules) == <<rules[1], rules[3], rules[2]>>

FirstViolated(rules, ok) ==
    IF \E i \in 1..Len(rules) : rules[i][1]
    THEN LET first == CHOOSE i \in 1..Len(rules) :
                          rules[i][1] /\ \A j \in 1..(i - 1) : ~rules[j][1]
         IN  <<FALSE, rules[first][2]>>
    ELSE ok

Returned(op) == pc[1] = "done" /\ frame[1].op = op

PasswordReasonsInOrder ==
    /\ Returned("validate_password") =>
         frame[1].ret = FirstViolated(PasswordRules(OrElse(frame[1].password, <<>>)),
                                      <<TRUE, "OK">>)
    /\ Returned("flat_validate_password") =>
         frame[1].ret = FirstViolated(FlatPasswordRules(frame[1].password), <<TRUE, "">>)

\* C17 as stated: a validator reports exactly one reason, that of the first
\* violated rule in the order minimum length, character set, spaces for a
\* username and minimum length, digit, letter, special character for a password.
C17_FirstRuleInTableOrder ==
    /\ Returned("validate_username") =>
         frame[1].ret = FirstViolated(
             TableOrder(UsernameRules(strip(OrElse(frame[1].username, <<>>)))),
             <<TRUE, "OK">>)
    /\ Returned("flat_validate_username") =>
         frame[1].ret = FirstViolated(TableOrder(FlatUsernameRules(frame[1].username)),
                                      <<TRUE, "">>)
    /\ PasswordReasonsInOrder

\* C17 amended: a validator reports exactly one reason, that of the first
\* violated rule in the order minimum length, spaces, character set for a
\* username and minimum length, digit, letter, special character for a password.
C17_FirstRuleInCodeOrder ==
    /\ Returned("validate_username") =>
         frame[1].ret = FirstViolated(
             UsernameRules(strip(OrElse(frame[1].username, <<>>))), <<TRUE, "OK">>)
    /\ Returned("flat_validate_username") =>
         frame[1].ret = FirstViolated(FlatUsernameRules(frame[1].username), <<TRUE, "">>)
    /\ PasswordReasonsInOrder

\* a username with a space and a character outside the set was validated, and
\* the spaces reason alone was reported
C17_Witness ==
    /\ Returned("validate_username")
    /\ frame[1].username = <<"a", " ", "@">>
    /\ frame[1].ret = <<FALSE, "Username cannot contain spaces.">>

\* at least 2 characters, no space, only letters, digits and underscore
WellFormedUsername(u) ==
    /\ Len(u) >= 2
    /\ \A i \in 1..Len(u) : u[i] # " " /\ (isalnum(u[i]) \/ u[i] = "_")

UsernameExamples ==
    /\ frame[1].username = <<"a", "b">> => frame[1].ret = <<TRUE, "OK">>
    /\ frame[1].username = <<"a", "b", " ", "c">> =>
         frame[1].ret = <<FALSE, "Username cannot contain spaces.">>

\* C18 as stated: validate_username returns (True, "OK") exactly for the
\* strings that have at least 2 characters, no space and only letters, digits
\* and underscore, and (False, reason) for every other string; "ab" is
\* accepted and "ab c" is told that a username cannot contain spaces.
C18_AcceptsExactlyWellFormed ==
    Returned("validate_username") /\ frame[1].username # None =>
        /\ frame[1].ret = <<TRUE, "OK">> <=> WellFormedUsername(frame[1].username)
        /\ frame[1].ret # <<TRUE, "OK">> =>
             frame[1].ret[1] = FALSE /\ frame[1].ret[2] # "OK"
        /\ UsernameExamples

\* C18 amended: validate_username returns (True, "OK") exactly for the
\* arguments that, once None is read as the empty string and surrounding
\* whitespace is stripped, have at least 2 characters, no space and only
\* letters, digits and underscore, and (False, reason) for every other one.
C18_AcceptsExactlyWellFormedStripped ==
    Returned("validate_username") =>
        /\ frame[1].ret = <<TRUE, "OK">>
             <=> WellFormedUsername(strip(OrElse(frame[1].username, <<>>)))
        /\ frame[1].ret # <<TRUE, "OK">> =>
             frame[1].ret[1] = FALSE /\ frame[1].ret[2] # "OK"
        /\ UsernameExamples

\* "ab c" was validated and told that a username cannot contain spaces
C18_Witness ==
    /\ Returned("validate_username")
    /\ frame[1].username = <<"a", "b", " ", "c">>
    /\ frame[1].ret = <<FALSE, "Username cannot contain spaces.">>

\* at least 5 characters, among them a digit, a letter and a character that
\* is neither
StrongPassword(p) ==
    /\ p # None
    /\ Len(p) >= 5
    /\ \E i \in 1..Len(p) : p[i] \in Digits
    /\ \E i \in 1..Len(p) : p[i] \in Letters
    /\ \E i \in 1..Len(p) : p[i] \notin Digits \cup Letters

\* C19: validate_password returns (True, "OK") exactly for the strings with at
\* least 5 characters that contain a digit, a letter and a non-alphanumeric
\* character, and (False, reason) for every other argument, None and the
\* empty string included.
C19_AcceptsExactlyStrongPasswords ==
    Returned("validate_password") =>
        /\ frame[1].ret = <<TRUE, "OK">> <=> StrongPassword(frame[1].password)
        /\ frame[1].ret # <<TRUE, "OK">> =>
             frame[1].ret[1] = FALSE /\ frame[1].ret[2] \notin {"OK", ""}
        /\ frame[1].password \in {None, <<>>} => frame[1].ret[1] = FALSE

\* a five-character password with a digit, a letter and a special character
\* was validated and accepted
C19_Witness ==
    /\ Returned("validate_password")
    /\ frame[1].password = <<"a", "1", "@", "a", "a">>
    /\ frame[1].ret = <<TRUE, "OK">>

Verified == pc[2] = "done" /\ frame[2].op = "verify_password"

\* C20 as stated: hash_password returns a hash of every plaintext with every
\* salt, and verify_password of a plaintext against that hash returns True
\* when the two plaintexts are the same and False when they differ.
C20_RoundTrip ==
    /\ Returned("hash_password") => frame[1].exc = ""
    /\ Verified =>
         /\ frame[2].exc = ""
         /\ frame[2].ret = <<frame[2].password = frame[1].password>>

\* C21 (as claimed): verify_password returns False and raises nothing when the
\* stored hash is malformed, so authenticate_user of a user whose stored hash
\* is not a well-formed hash returns (False, None).
C21_MalformedHashIsFalse ==
    evolution = "db" =>
      \A row \in users, p \in PasswordInputs :
        ~HasSalt(row.password_hash) =>
          /\ verify_password(p, row.password_hash) = [exc |-> "", val |-> FALSE]
          /\ authenticate_user(users, row.username, p)
               = [exc |-> "", ret |-> <<FALSE, None>>]

\* the non-empty comma-separated fields of a line of users.txt
Fields(line) == SelectNonEmpty(StripAll(split(strip(line), ",")))

\* neither blank, nor short of fields, nor with a username under 2 characters,
\* nor with a hash that does not start with "$2"
UsableLine(line) ==
    /\ strip(line) # <<>>
    /\ Len(Fields(line)) >= 2
    /\ Len(Fields(line)[1]) >= 2
    /\ startswith(Fields(line)[2], <<"$", "2">>)

RoleOfLine(line) ==
    IF Len(Fields(line)) >= 3 THEN normalise_role(Fields(line)[3]) ELSE ANALYST

\* C22: on an initialised store migrate_users_from_file raises nothing whatever
\* users.txt holds; the blank lines, the lines with fewer than 2 non-empty
\* fields, with a username shorter than 2 characters or with a hash that does
\* not start with "$2" add no record, and every other line, before or after
\* them, has a record for its username afterwards.
C22_BadLinesAreSkipped ==
    evolution = "db" /\ tables =>
      LET m == MigrateLines(userFile, tables, users, nextId)
          usable == {i \in 1..Len(userFile) : UsableLine(userFile[i])}
      IN  /\ m.exc = ""
          /\ \A i \in usable :
               \E row \in m.users : row.username = Fields(userFile[i])[1]
          /\ \A row \in m.users \ users :
               \E i \in usable :
                   /\ row.username = Fields(userFile[i])[1]
                   /\ row.password_hash = Fields(userFile[i])[2]
                   /\ row.role = RoleOfLine(userFile[i])

\* users.txt has a record, a line with a hash that is not bcrypt's and another
\* record, and the migration has stored both records
C22_Witness ==
    /\ userFile = << <<"c","d",",","$","2","k",",","a","d","m","i","n">>,
                     <<"c","d",",","x","x">>,
                     <<"a","b",","," ","$","2","n",",","A","d","m","i","n">> >>
    /\ \E row \in users : row.username = <<"c","d">> /\ row.password_hash = <<"$","2","k">>
    /\ \E row \in users : row.username = <<"a","b">> /\ row.password_hash = <<"$","2","n">>

\* the first line of file that the migration can use for username
FirstUsableLine(file, username) ==
    LET mine == {i \in 1..Len(file) :
                    UsableLine(file[i]) /\ Fields(file[i])[1] = username}
    IN  CHOOSE i \in mine : \A j \in mine : i <= j

\* C23: migrate_users_from_file leaves every record of the store as it is, id,
\* password hash and role; a record it adds is that of the first usable line of
\* its username; and a second migration of the same file changes nothing.
C23_StoreIsAuthoritative ==
    evolution = "db" /\ tables =>
      LET m == MigrateLines(userFile, tables, users, nextId)
          again == MigrateLines(userFile, tables, m.users, m.seq)
      IN  /\ users \subseteq m.users
          /\ \A row \in m.users \ users :
               /\ RowsOf(users, row.username) = {}
               /\ RowsOf(m.users, row.username) = {row}
               /\ row.id > nextId
               /\ LET first == userFile[FirstUsableLine(userFile, row.username)]
                  IN  /\ row.password_hash = Fields(first)[2]
                      /\ row.role = RoleOfLine(first)
          /\ again.exc = ""
          /\ again.users = m.users
          /\ again.seq = m.seq

\* "ab" registered first; the migration of a file with two lines for "cd" and one
\* for "ab" then stored the first "cd" line and left the record of "ab" alone
C23_Witness ==
    /\ Len(userFile) = 4
    /\ SubSeq(userFile, 1, 3)
         = << <<"c","d",",","$","2","k",",","a","d","m","i","n">>,
              <<"c","d",",","$","2","z">>,
              <<"a","b",","," ","$","2","n",",","A","d","m","i","n">> >>
    /\ \E mine \in users, theirs \in users :
         /\ mine.username = <<"a","b">>
         /\ mine.role = ANALYST
         /\ Verifies(PW1, mine.password_hash)
         /\ theirs.username = <<"c","d">>
         /\ theirs.password_hash = <<"$","2","k">>
         /\ theirs.role = ADMIN
         /\ mine.id < theirs.id

StoreCalls ==
    {"authenticate_user", "is_admin_credentials", "register_user", "ensure_seed_admin"}

\* C24: a call of authenticate_user, is_admin_credentials, register_user or
\* ensure_seed_admin made while the database is unreachable ends in an error
\* that reaches the caller: it returns nothing, neither (False, None) or False
\* nor success, and it leaves the store and users.txt as they were.
C24_OutagePropagates ==
    [][\A c \in Sessions :
          (~storeUp /\ pc[c] = "idle" /\ pc'[c] = "done"
              /\ frame'[c].op \in StoreCalls)
          => /\ frame'[c].exc = "OperationalError"
             /\ frame'[c].ret = <<>>
             /\ users' = users
             /\ nextId' = nextId
             /\ userFile' = userFile]_vars

\* the seed account is in the store, the database is unreachable, and an
\* authenticate_user with the seed credentials has raised
C24_Witness ==
    /\ ~storeUp
    /\ \E row \in users :
         /\ row.username = SEED_ADMIN_USERNAME
         /\ Verifies(SEED_ADMIN_PASSWORD, row.password_hash)
    /\ pc[1] = "done"
    /\ frame[1].op = "authenticate_user"
    /\ frame[1].username = SEED_ADMIN_USERNAME
    /\ frame[1].password = SEED_ADMIN_PASSWORD
    /\ frame[1].exc = "OperationalError"

\* C25: in a rerun of the login page the startup block is over before the
\* handler calls authenticate_user or is_admin_credentials, and the store those
\* calls read has exactly one seed record, role admin, hash verifying the seed
\* password; so a login with the seed credentials is always welcomed as admin
\* and an approval with them never fails.
C25_SeededBeforeAnyCall ==
    /\ \A db_initialised \in BOOLEAN, salt \in Salts :
         LET st == page_startup(db_initialised, users, nextId, userFile, salt)
         IN  /\ st.exc = ""
             /\ SeedIsAdmin(st.users)
             /\ authenticate_user(st.users, SEED_ADMIN_USERNAME, SEED_ADMIN_PASSWORD)
                  = [exc |-> "", ret |-> <<TRUE, ADMIN>>]
             /\ is_admin_credentials(st.users, SEED_ADMIN_USERNAME, SEED_ADMIN_PASSWORD)
                  = [exc |-> "", ret |-> TRUE]
    /\ \A c \in Sessions :
         /\ pc[c] = "session" => SeedIsAdmin(users)
         /\ frame[c].op = "login" /\ frame[c].username = SEED_ADMIN_USERNAME
                                  /\ frame[c].password = SEED_ADMIN_PASSWORD
              => /\ frame[c].exc = ""
                 /\ frame[c].ret = <<"Welcome">>
                 /\ frame[c].role = ADMIN
         /\ frame[c].op = "register" => frame[c].exc = ""

\* users.txt began with a seed line of another password and role analyst, and
\* the first rerun of a session welcomed the seed credentials as admin
C25_Witness ==
    /\ Len(userFile) >= Len(LegacyFile)
    /\ SubSeq(userFile, 1, Len(LegacyFile)) = LegacyFile
    /\ pc[1] = "session"
    /\ frame[1].op = "login"
    /\ frame[1].username = SEED_ADMIN_USERNAME
    /\ frame[1].password = SEED_ADMIN_PASSWORD
    /\ frame[1].ret = <<"Welcome">>
    /\ frame[1].role = ADMIN
    /\ \A row \in users : row.username \in {SEED_ADMIN_USERNAME, <<"c","d">>}

\* C26: no step of register_user, ensure_seed_admin, migrate_users_from_file,
\* authenticate_user or is_admin_credentials deletes a record or changes the id
\* or the username of one; a record that is not the seed's keeps its password
\* hash and role; and a new record gets an id that no record ever had.
C26_RecordsAreKept ==
    [][evolution = "db" =>
         /\ \A row \in users :
              \E kept \in users' :
                  /\ kept.id = row.id
                  /\ kept.username = row.username
                  /\ row.username # SEED_ADMIN_USERNAME => kept = row
         /\ \A new \in users' :
              \/ \E row \in users : row.id = new.id
              \/ new.id > nextId /\ new.id <= nextId'
         /\ \A r1 \in users', r2 \in users' : r1.id = r2.id => r1 = r2
         /\ nextId' >= nextId]_vars

\* "ab" was registered before the seed account existed; since then the seed
\* record has been given another hash than the one of its users.txt line, "cd"
\* has been migrated, and the record of "ab" is as users.txt recorded it
C26_Witness ==
    /\ evolution = "db"
    /\ \E mine \in users, seed \in users, late \in users :
         /\ mine.username = <<"a","b">>
         /\ seed.username = SEED_ADMIN_USERNAME
         /\ late.username = <<"c","d">>
         /\ mine.id < seed.id
         /\ seed.id < late.id
         /\ Line3(mine.username, mine.password_hash, mine.role) \in FileLines
         /\ \E salt \in Salts :
              /\ seed.password_hash # hashpw(SEED_ADMIN_PASSWORD, salt)
              /\ Line3(SEED_ADMIN_USERNAME, hashpw(SEED_ADMIN_PASSWORD, salt),
                       SEED_ADMIN_ROLE) \in FileLines

ReadOnlyCalls ==
    {"authenticate_user", "login_user", "is_admin_credentials",
     "get_user_by_username", "create_tables"}

\* C27: a call of authenticate_user, login_user, is_admin_credentials,
\* get_user_by_username or create_tables, whether it returns or raises, leaves
\* every record, the id sequence and users.txt as they were.
C27_ReadOnlyCalls ==
    [][\A c \in Sessions :
          (pc[c] = "idle" /\ pc'[c] = "done" /\ frame'[c].op \in ReadOnlyCalls)
          => /\ users' = users
             /\ nextId' = nextId
             /\ userFile' = userFile]_vars

\* "ab" is registered, and an authenticate_user for it with a wrong password has
\* returned (False, None)
C27_Witness ==
    /\ storeUp
    /\ \E row \in users :
         /\ row.username = <<"a","b">>
         /\ Verifies(PW1, row.password_hash)
    /\ pc[1] = "done"
    /\ frame[1].op = "authenticate_user"
    /\ frame[1].username = <<" ","a","b">>
    /\ frame[1].password = SEED_ADMIN_PASSWORD
    /\ frame[1].exc = ""
    /\ frame[1].ret = <<FALSE, None>>

\* C28 (as claimed): of two interleaved register_user calls of the flat-file
\* program for the same username at most one returns True, and users.txt
\* never holds two lines for one username.
C28_FlatOneWinner ==
    /\ (/\ pc[1] = "done" /\ pc[2] = "done"
        /\ frame[1].op = "flat_register_user" /\ frame[2].op = "flat_register_user"
        /\ frame[1].username = frame[2].username)
       => ~(frame[1].ret = <<TRUE>> /\ frame[2].ret = <<TRUE>>)
    /\ \A i \in 1..Len(userFile), j \in 1..Len(userFile) :
         split1(strip(userFile[i]), ",")[1] = split1(strip(userFile[j]), ",")[1]
            => i = j

\* the hash in line i of a users.txt
HashOfLine(file, i) == StripAll(split(file[i], ","))[2]

\* C29: every ensure_seed_admin call stores the hash it has just computed, so
\* with a salt other than that of the stored hash the seed record's hash
\* changes; a seed line that users.txt already has stays as it is; and after
\* two calls with different salts on a users.txt without a seed line, the
\* line's hash and the record's hash differ while both verify the seed password.
C29_FreshHashEveryCall ==
    evolution = "db" =>
      \A s1 \in Salts, s2 \in Salts :
       \A o1 \in {ensure_seed_admin(users, nextId, userFile, s1)} :
        \A o2 \in {ensure_seed_admin(o1.users, o1.seq, o1.file, s2)} :
         \A before \in {get_user_by_username(users, SEED_ADMIN_USERNAME)},
            after \in {get_user_by_username(o1.users, SEED_ADMIN_USERNAME)},
            again \in {get_user_by_username(o2.users, SEED_ADMIN_USERNAME)} :
            /\ after.password_hash = hashpw(SEED_ADMIN_PASSWORD, s1)
            /\ again.password_hash = hashpw(SEED_ADMIN_PASSWORD, s2)
            /\ (before # NoRow /\ HasSalt(before.password_hash)
                  /\ SaltOf(before.password_hash) # s1)
                 => after.password_hash # before.password_hash
            /\ s1 # s2 => again.password_hash # after.password_hash
            /\ \A i \in SeedLines(userFile) :
                 o1.file[i] = userFile[i] /\ o2.file[i] = userFile[i]
            /\ (SeedLines(userFile) = {} /\ s1 # s2) =>
                 \A i \in SeedLines(o2.file) :
                   /\ HashOfLine(o2.file, i) # again.password_hash
                   /\ Verifies(SEED_ADMIN_PASSWORD, HashOfLine(o2.file, i))
                   /\ Verifies(SEED_ADMIN_PASSWORD, again.password_hash)

\* the seed record is the only one, users.txt has one seed line, the hashes of
\* the two differ and both verify the seed password
C29_Witness ==
    /\ evolution = "db"
    /\ Cardinality(users) = 1
    /\ Cardinality(SeedLines(userFile)) = 1
    /\ \A row \in users : \A i \in SeedLines(userFile) :
         /\ row.username = SEED_ADMIN_USERNAME
         /\ HashOfLine(userFile, i) # row.password_hash
         /\ Verifies(SEED_ADMIN_PASSWORD, HashOfLine(userFile, i))
         /\ Verifies(SEED_ADMIN_PASSWORD, row.password_hash)

DeleteViews == {"cyber_delete", "data_delete"}

\* C30 as stated: while logged_in is True the session role is the role that the
\* most recent successful authenticate_user call of the session returned, and
\* the delete controls of the Cybersecurity and Data Science pages are on the
\* screen only when logged_in is True and the role is admin.  The approval of
\* an admin registration (1_Login.py lines 81-83) is an authenticate_user call
\* of the session too, and it leaves the session role alone.
C30_RoleOfLastAuthenticate ==
    \A c \in Sessions :
        /\ session[c].logged_in => session[c].role = session[c].last_auth
        /\ session[c].view \in DeleteViews =>
               session[c].logged_in /\ session[c].role = ADMIN

\* C30, amended: while logged_in is True the session role is the role that
\* authenticate_user returned to the most recent successful press of the Login
\* button in the session, and the delete controls of the Cybersecurity and
\* Data Science pages are on the screen only when logged_in is True and that
\* role is admin.
C30_RoleOfLastLogin ==
    \A c \in Sessions :
        /\ session[c].logged_in =>
               /\ session[c].role = session[c].last_login
               /\ session[c].role # None
        /\ session[c].view \in DeleteViews =>
               session[c].logged_in /\ session[c].last_login = ADMIN

\* an analyst is logged in, an admin has approved a registration in the same
\* session since, and the analyst has the Data Science page open
C30_Witness ==
    \E c \in Sessions :
        /\ session[c].logged_in
        /\ session[c].role = ANALYST
        /\ session[c].last_auth = ADMIN
        /\ session[c].view = "data"

====
